---- MODULE Spec2Model ----
(***************************************************************************)
(* A model of the Lox tree-walking interpreter: the resolver               *)
(* (resolver.rs), the environments (environment.rs), the runtime objects   *)
(* (object.rs), the evaluator (interpreter.rs) and the entry points        *)
(* (main.rs, execute_for_tests).  The evaluator is a small-step machine:   *)
(* ctrl is the call of evaluate / execute being made or its result, kont   *)
(* is the stack of Rust frames waiting for that result.                    *)
(***************************************************************************)
EXTENDS Integers, Sequences, FiniteSets, TLC

VARIABLES
    entry,        \* which entry point runs: "test", "file" or "repl"
    lines,        \* how many source texts the entry point has read
    src,          \* the source text being run (an element of the corpus)
    stage,        \* position in the entry point: scan, parse, resolve, execute, done
    prog,         \* the Program (statement list) after parsing / resolving
    result,       \* the entry point's Result once stage = "done"
    printed,      \* the lines handed to the printer callback
    time,         \* the clock builtin's counter
    envs,         \* heap of Environment cells (Rc<RefCell<Environment>>)
    classes,      \* heap of Class cells
    instances,    \* heap of Instance cells
    environment,  \* Interpreter.environment
    ctrl,         \* the evaluate/execute call in progress or its result
    kont          \* stack of suspended Rust frames, innermost last

vars == <<entry, lines, src, stage, prog, result, printed, time, envs,
          classes, instances, environment, ctrl, kont>>

heap == <<envs, classes, instances>>

-----------------------------------------------------------------------------
(* Option<T> *)

None == [some |-> FALSE]

Some(x) == [some |-> TRUE, v |-> x]

(* HashMap: a function whose domain is the set of keys *)

EmptyMap == <<>>

Insert(map, key, value) == (key :> value) @@ map

ContainsKey(map, key) == key \in DOMAIN map

-----------------------------------------------------------------------------
(* scanner::Token, as the parser hands it to the tree *)

Token(type_, lexeme, line) == [type_ |-> type_, lexeme |-> lexeme, line |-> line]

Ident(lexeme) == Token("Identifier", lexeme, 1)

(* error::LoxError *)

parse_error(token, message) ==
    [line |-> token.line,
     loc |-> IF token.type_ = "EOF" THEN " at end"
             ELSE " at '" \o token.lexeme \o "'",
     exit |-> 65,
     message |-> message]

runtime_error(token, message) ==
    [line |-> token.line, loc |-> "", exit |-> 70, message |-> message]

-----------------------------------------------------------------------------
(* object::Literal and object::Object *)

Nil == [t |-> "Nil"]

Bool(b) == [t |-> "Bool", b |-> b]

Number(n) == [t |-> "Number", n |-> n]

String(s) == [t |-> "String", s |-> s]

BuiltinFunction(name, arity) == [t |-> "BuiltinFunction", name |-> name, arity |-> arity]

Function(declaration, closure) ==
    [t |-> "Function", declaration |-> declaration, closure |-> closure]

ClassRef(c) == [t |-> "Class", ref |-> c]

InstanceRef(i) == [t |-> "Instance", ref |-> i]

IsLiteral(o) == o.t \in {"Nil", "Bool", "Number", "String"}

(* Literal::is_truthy as it would be if 0 and "" were falsy too (C13) *)
Literal_is_truthy_zero_falsy(l) ==
    CASE l.t = "Nil" -> FALSE
      [] l.t = "Bool" -> l.b
      [] l.t = "Number" -> l.n # 0
      [] l.t = "String" -> l.s # ""
      [] OTHER -> TRUE

Literal_is_truthy(l) ==
    CASE l.t = "Nil" -> FALSE
      [] l.t = "Bool" -> l.b
      [] OTHER -> TRUE

Object_is_truthy(o) == IF IsLiteral(o) THEN Literal_is_truthy(o) ELSE TRUE

Object_eq(l, r) ==
    CASE IsLiteral(l) /\ IsLiteral(r) -> l = r
      [] IsLiteral(l) \/ IsLiteral(r) -> FALSE
      [] l.t = "BuiltinFunction" /\ r.t = "BuiltinFunction" ->
            l.arity = r.arity /\ l.name = r.name
      [] l.t = "BuiltinFunction" \/ r.t = "BuiltinFunction" -> FALSE
      [] l.t = "Function" /\ r.t = "Function" -> l.declaration.id = r.declaration.id
      [] l.t = "Function" \/ r.t = "Function" -> FALSE
      [] l.t = "Class" /\ r.t = "Class" -> l.ref = r.ref
      [] l.t = "Class" \/ r.t = "Class" -> FALSE
      [] OTHER -> l.ref = r.ref

-----------------------------------------------------------------------------
(* environment::Environment.  A heap h is the sequence of all cells ever   *)
(* allocated; a handle is an index into it.                                *)

Environment_new == [values |-> EmptyMap, enclosing |-> None]

Environment_child(inner) == [values |-> EmptyMap, enclosing |-> Some(inner)]

Environment_define(env, name, value) ==
    [env EXCEPT !.values = Insert(@, name, value)]

Ok(v) == [tag |-> "Ok", v |-> v]

Err(e) == [tag |-> "Err", e |-> e]

Panic == [tag |-> "Panic"]

undefined(name) ==
    Err(runtime_error(name, "Undefined variable '" \o name.lexeme \o "'."))

RECURSIVE Environment_get(_, _, _)
Environment_get(h, e, name) ==
    IF ContainsKey(h[e].values, name.lexeme) THEN Ok(h[e].values[name.lexeme])
    ELSE IF h[e].enclosing.some THEN Environment_get(h, h[e].enclosing.v, name)
    ELSE undefined(name)


RECURSIVE Environment_get_at(_, _, _, _)
Environment_get_at(h, e, depth, name) ==
    IF depth = 0 THEN Environment_get(h, e, name)
    ELSE IF h[e].enclosing.some
         THEN Environment_get_at(h, h[e].enclosing.v, depth - 1, name)
         ELSE Panic

(* Environment_assign as it would be if the holder wrote to a copy of the   *)
(* cell (C6)                                                               *)
Environment_assign_copy(h, e, name, value) ==
    IF Environment_get(h, e, name).tag = "Ok" THEN Ok(h) ELSE undefined(name)

(* assign and assign_at return the heap after the call in v *)
(* Environment_assign as it would be if it wrote the binding in the       *)
(* receiver whichever environment of the chain holds the name (C27)        *)
Environment_assign_shadows(h, e, name, value) ==
    IF Environment_get(h, e, name).tag = "Ok"
    THEN Ok([h EXCEPT ![e] = Environment_define(@, name.lexeme, value)])
    ELSE undefined(name)


RECURSIVE Environment_assign(_, _, _, _)
Environment_assign(h, e, name, value) ==
    IF ContainsKey(h[e].values, name.lexeme)
    THEN Ok([h EXCEPT ![e] = Environment_define(@, name.lexeme, value)])
    ELSE IF h[e].enclosing.some
         THEN Environment_assign(h, h[e].enclosing.v, name, value)
         ELSE undefined(name)

RECURSIVE Environment_assign_at(_, _, _, _, _)
Environment_assign_at(h, e, depth, name, value) ==
    IF depth = 0 THEN Environment_assign(h, e, name, value)
    ELSE IF h[e].enclosing.some
         THEN Environment_assign_at(h, h[e].enclosing.v, depth - 1, name, value)
         ELSE Panic

-----------------------------------------------------------------------------
(* ast.rs: Expr and Stmt.  A missing optional child is None.  Every        *)
(* FunctionStmt carries an id that stands for its address (ptr::eq).       *)

AssignExpr(name, value) ==
    [t |-> "Assign", name |-> name, value |-> value, resolved_depth |-> None]

BinaryExpr(left, operator, right) ==
    [t |-> "Binary", left |-> left, operator |-> operator, right |-> right]

CallExpr(callee, paren, arguments) ==
    [t |-> "Call", callee |-> callee, paren |-> paren, arguments |-> arguments]

GetExpr(object, name) == [t |-> "Get", object |-> object, name |-> name]

GroupingExpr(expr) == [t |-> "Grouping", expr |-> expr]

LiteralExpr(value) == [t |-> "Literal", value |-> value]

LogicalExpr(left, operator, right) ==
    [t |-> "Logical", left |-> left, operator |-> operator, right |-> right]

SetExpr(object, name, value) ==
    [t |-> "Set", object |-> object, name |-> name, value |-> value]

SuperExpr(keyword, method) ==
    [t |-> "Super", keyword |-> keyword, method |-> method, resolved_depth |-> None]

ThisExpr(keyword) == [t |-> "This", keyword |-> keyword, resolved_depth |-> None]

UnaryExpr(operator, right) == [t |-> "Unary", operator |-> operator, right |-> right]

VariableExpr(name) == [t |-> "Variable", name |-> name, resolved_depth |-> None]

BlockStmt(stmts) == [t |-> "Block", stmts |-> stmts]

ClassStmt(name, superclass, methods) ==
    [t |-> "Class", name |-> name, superclass |-> superclass, methods |-> methods]

ExprStmt(expr) == [t |-> "Expr", expr |-> expr]

FunctionStmt(id, name, parameters, body) ==
    [t |-> "Function", id |-> id, name |-> name, parameters |-> parameters,
     body |-> body]

IfStmt(condition, then_, else_) ==
    [t |-> "If", condition |-> condition, then_ |-> then_, else_ |-> else_]

PrintStmt(expr) == [t |-> "Print", expr |-> expr]

ReturnStmt(keyword, value) == [t |-> "Return", keyword |-> keyword, value |-> value]

VarStmt(name, initializer) ==
    [t |-> "Var", name |-> name, initializer |-> initializer]

WhileStmt(condition, body) == [t |-> "While", condition |-> condition, body |-> body]

-----------------------------------------------------------------------------
(* The literals of the source texts: numbers up to MaxLiteral and these    *)
(* strings                                                                 *)

MaxLiteral == 9

StringValues == {"", "a", "b"}

-----------------------------------------------------------------------------
(* scanner.rs.  The source is a sequence of bytes, each a one-character    *)
(* string.  The scanner state sc holds source, start, current and line,    *)
(* the tokens pushed so far, and in res the way scanning ended: an Err, a   *)
(* Panic (an unwrap of None or an index past the end), or Ok.              *)

Digits == {"0", "1", "2", "3", "4", "5", "6", "7", "8", "9"}

Alphas ==
    {"a", "b", "c", "d", "e", "f", "g", "h", "i", "j", "k", "l", "m", "n", "o",
     "p", "q", "r", "s", "t", "u", "v", "w", "x", "y", "z", "A", "B", "C", "D",
     "E", "F", "G", "H", "I", "J", "K", "L", "M", "N", "O", "P", "Q", "R", "S",
     "T", "U", "V", "W", "X", "Y", "Z", "_"}

SingleTypes ==
    [c \in {"(", ")", "{", "}", ",", ".", "-", "+", ";", "*"} |->
        CASE c = "(" -> "LeftParen" [] c = ")" -> "RightParen"
          [] c = "{" -> "LeftBrace" [] c = "}" -> "RightBrace"
          [] c = "," -> "Comma" [] c = "." -> "Dot" [] c = "-" -> "Minus"
          [] c = "+" -> "Plus" [] c = ";" -> "Semicolon" [] c = "*" -> "Star"]

(* the bytes of the source texts, and the decimal value of those that start *)
(* no token                                                                 *)
Bytes ==
    Digits \cup Alphas \cup DOMAIN SingleTypes
    \cup {"!", "=", "<", ">", "/", " ", "\r", "\t", "\n", "\"", "@", "#"}

ByteValue(c) == CASE c = "@" -> 64 [] c = "#" -> 35

is_digit(c) == c \in Digits

is_alpha(c) == c \in Alphas

is_alpha_numeric(c) == is_digit(c) \/ is_alpha(c)

KEYWORDS ==
    [w \in {"and", "class", "else", "false", "for", "fun", "if", "nil", "or",
            "print", "return", "super", "this", "true", "var", "while"} |->
        CASE w = "and" -> "And" [] w = "class" -> "Class" [] w = "else" -> "Else"
          [] w = "false" -> "False" [] w = "for" -> "For" [] w = "fun" -> "Fun"
          [] w = "if" -> "If" [] w = "nil" -> "Nil" [] w = "or" -> "Or"
          [] w = "print" -> "Print" [] w = "return" -> "Return"
          [] w = "super" -> "Super" [] w = "this" -> "This" [] w = "true" -> "True"
          [] w = "var" -> "Var" [] w = "while" -> "While"]

Scanner(source) ==
    [source |-> source, start |-> 0, current |-> 0, line |-> 1,
     tokens |-> <<>>, res |-> None]

Stopped(sc) == "tag" \in DOMAIN sc.res

Scanner_is_at_end(sc) == sc.current >= Len(sc.source)

Scanner_peek(sc) ==
    IF Scanner_is_at_end(sc) THEN None ELSE Some(sc.source[sc.current + 1])

(* source.as_bytes()[current + 1]: the index is checked against len with > *)
Scanner_peek_next(sc) ==
    IF sc.current + 1 > Len(sc.source) THEN None
    ELSE IF sc.current + 2 \in DOMAIN sc.source THEN Some(sc.source[sc.current + 2])
    ELSE Panic

Scanner_advance(sc) ==
    IF ~Scanner_peek(sc).some THEN [sc EXCEPT !.res = Panic]
    ELSE [sc EXCEPT !.line = IF Scanner_peek(sc).v = "\n" THEN @ + 1 ELSE @,
                    !.current = @ + 1]

(* peek().is_some_and(pred), pred being the set of bytes it holds for *)
Matched(sc, pred) == Scanner_peek(sc).some /\ Scanner_peek(sc).v \in pred

Scanner_match_pred(sc, pred) == IF Matched(sc, pred) THEN Scanner_advance(sc) ELSE sc

Scanner_match_(sc, expected) == Scanner_match_pred(sc, {expected})

RECURSIVE Scanner_advance_all(_, _)
Scanner_advance_all(sc, pred) ==
    IF Matched(sc, pred) THEN Scanner_advance_all(Scanner_advance(sc), pred) ELSE sc

(* &source[start..current] *)
RECURSIVE Lexeme(_, _, _)
Lexeme(source, start, current) ==
    IF current <= start THEN ""
    ELSE Lexeme(source, start, current - 1) \o source[current]

Scanner_token(sc, type_) ==
    [sc EXCEPT !.tokens =
        Append(@, Token(type_, Lexeme(sc.source, sc.start, sc.current), sc.line))]

Scanner_err(sc, message) ==
    [sc EXCEPT !.res = Err([line |-> sc.line, loc |-> "", exit |-> 65,
                            message |-> message])]

StringEnd(sc) ==
    IF ~Matched(sc, {"\""}) THEN Scanner_err(sc, "Unterminated string")
    ELSE Scanner_token(Scanner_advance(sc), "StringLiteral")

Scanner_string(sc) == StringEnd(Scanner_advance_all(sc, Bytes \ {"\""}))

Fraction(sc, next) ==
    IF "tag" \in DOMAIN next THEN [sc EXCEPT !.res = Panic]
    ELSE IF next.some /\ is_digit(next.v)
    THEN Scanner_token(Scanner_advance_all(Scanner_advance(sc), Digits), "Number")
    ELSE Scanner_token(sc, "Number")

NumberEnd(sc) ==
    IF Matched(sc, {"."}) THEN Fraction(sc, Scanner_peek_next(sc))
    ELSE Scanner_token(sc, "Number")

Scanner_number(sc) == NumberEnd(Scanner_advance_all(sc, Digits))

IdentifierEnd(sc, lexeme) ==
    Scanner_token(sc, IF lexeme \in DOMAIN KEYWORDS THEN KEYWORDS[lexeme]
                      ELSE "Identifier")

Scanner_identifier(sc) ==
    IdentifierEnd(Scanner_advance_all(sc, Digits \cup Alphas),
                  Lexeme(sc.source, sc.start,
                         Scanner_advance_all(sc, Digits \cup Alphas).current))

(* the match of scan_token, c being the byte that advance returned *)
ScanByte(sc, c) ==
    CASE c \in DOMAIN SingleTypes -> Scanner_token(sc, SingleTypes[c])
      [] c = "!" -> Scanner_token(Scanner_match_(sc, "="),
                                  IF Matched(sc, {"="}) THEN "BangEqual" ELSE "Bang")
      [] c = "=" -> Scanner_token(Scanner_match_(sc, "="),
                                  IF Matched(sc, {"="}) THEN "EqualEqual" ELSE "Equal")
      [] c = "<" -> Scanner_token(Scanner_match_(sc, "="),
                                  IF Matched(sc, {"="}) THEN "LessEqual" ELSE "Less")
      [] c = ">" -> Scanner_token(Scanner_match_(sc, "="),
                                  IF Matched(sc, {"="}) THEN "GreaterEqual"
                                  ELSE "Greater")
      [] c = "/" -> IF Matched(sc, {"/"})
                    THEN Scanner_advance_all(Scanner_advance(sc), Bytes \ {"\n"})
                    ELSE Scanner_token(sc, "Slash")
      [] c \in {" ", "\r", "\t", "\n"} -> sc
      [] c = "\"" -> Scanner_string(sc)
      [] OTHER -> IF is_digit(c) THEN Scanner_number(sc)
                  ELSE IF is_alpha(c) THEN Scanner_identifier(sc)
                  ELSE Scanner_err(sc, "Unexpected character: '"
                                       \o ToString(ByteValue(c)) \o "'.")

Scanner_scan_token(sc) ==
    IF ~Scanner_peek(sc).some THEN [sc EXCEPT !.res = Panic]
    ELSE ScanByte(Scanner_advance(sc), Scanner_peek(sc).v)

RECURSIVE Scanner_scan_tokens(_)
Scanner_scan_tokens(sc) ==
    IF Stopped(sc) THEN sc
    ELSE IF Scanner_is_at_end(sc)
    THEN [sc EXCEPT !.tokens = Append(@, Token("EOF", "", sc.line)),
                    !.res = Ok("tokens")]
    ELSE Scanner_scan_tokens(Scanner_scan_token([sc EXCEPT !.start = sc.current]))

Scanned_result(sc) == IF sc.res.tag = "Ok" THEN Ok(sc.tokens) ELSE sc.res

scan_tokens(source) == Scanned_result(Scanner_scan_tokens(Scanner(source)))

-----------------------------------------------------------------------------
(* parser.rs.  The parser state s holds tokens, current and errors; a      *)
(* Result that is an Err is held in err, and every operator leaves such a  *)
(* state as it is (the ? operator); the values parsed so far, not yet      *)
(* built into a node, are held in out, the last one last.                  *)

Parser(tokens) ==
    [tokens |-> tokens, current |-> 0, errors |-> <<>>, err |-> None,
     out |-> <<>>, stmts |-> <<>>, aborted |-> FALSE]

peek(s) == s.tokens[s.current + 1]

previous(s) == s.tokens[s.current]

is_at_end(s) == peek(s).type_ = "EOF"

check(s, type_) == ~is_at_end(s) /\ peek(s).type_ = type_

(* advance ends with a read of previous(), tokens[current - 1]: with current *)
(* still 0 the index underflows and the process aborts                      *)
advance(s) ==
    IF ~is_at_end(s) THEN [s EXCEPT !.current = @ + 1]
    ELSE IF s.current = 0 THEN [s EXCEPT !.aborted = TRUE]
    ELSE s

(* whether match_ finds one of the types, which it then advances over *)
Matches(s, types) == \E type_ \in types : check(s, type_)

Failed(s) == s.err.some

Fail(s, err) == [s EXCEPT !.err = Some(err)]

Push(s, value) == [s EXCEPT !.out = Append(@, value)]

(* the value k places below the last one parsed *)
At(s, k) == s.out[Len(s.out) - k]

(* the last n values parsed are built into one *)
Replace(s, n, value) ==
    [s EXCEPT !.out = Append(SubSeq(@, 1, Len(@) - n), value)]

(* consume, the token it returns kept *)
consume(s, type_, message) ==
    IF Failed(s) THEN s
    ELSE IF check(s, type_) THEN Push(advance(s), peek(s))
    ELSE Fail(s, parse_error(peek(s), message))

(* consume, the token it returns dropped *)
Expect(s, type_, message) ==
    IF Failed(s) THEN s
    ELSE IF check(s, type_) THEN advance(s)
    ELSE Fail(s, parse_error(peek(s), message))

(* lexeme.parse() for the number lexemes the scanner makes of digits *)
NumberOf(lexeme) == CHOOSE n \in 0..MaxLiteral : ToString(n) = lexeme

(* lexeme[1..lexeme.len() - 1] *)
Unquote(lexeme) == CHOOSE v \in StringValues : "\"" \o v \o "\"" = lexeme

Grouped(s) == IF Failed(s) THEN s ELSE Replace(s, 1, GroupingExpr(At(s, 0)))

MkUnary(s) == IF Failed(s) THEN s ELSE Replace(s, 2, UnaryExpr(At(s, 1), At(s, 0)))

MkBinary(s) ==
    IF Failed(s) THEN s ELSE Replace(s, 3, BinaryExpr(At(s, 2), At(s, 1), At(s, 0)))

MkLogical(s) ==
    IF Failed(s) THEN s ELSE Replace(s, 3, LogicalExpr(At(s, 2), At(s, 1), At(s, 0)))

MkAssign(s) ==
    IF Failed(s) THEN s ELSE Replace(s, 2, AssignExpr(At(s, 1).name, At(s, 0)))

MkCall(s) ==
    IF Failed(s) THEN s ELSE Replace(s, 3, CallExpr(At(s, 2), At(s, 0), At(s, 1)))

(* arguments.push(..) and parameters.push(..): the list is below the item *)
PushItem(s) == IF Failed(s) THEN s ELSE Replace(s, 2, Append(At(s, 1), At(s, 0)))

(* the check of a list that already has 255 items *)
Limit(s, message) ==
    IF ~Failed(s) /\ Len(At(s, 0)) >= 255
    THEN [s EXCEPT !.errors = Append(@, parse_error(peek(s), message))]
    ELSE s

(* the types matched at each level of binary operators, and the level next *)
BinaryTypes(level) ==
    CASE level = "equality" -> {"BangEqual", "EqualEqual"}
      [] level = "comparison" -> {"Greater", "GreaterEqual", "Less", "LessEqual"}
      [] level = "term" -> {"Minus", "Plus"}
      [] level = "factor" -> {"Slash", "Star"}

BinaryNext(level) ==
    CASE level = "equality" -> "comparison"
      [] level = "comparison" -> "term"
      [] level = "term" -> "factor"
      [] level = "factor" -> "unary"

RECURSIVE expression(_), assignment(_), AssignTail(_), or(_), OrLoop(_), and(_),
          AndLoop(_), binary_expression(_, _), BinaryLoop(_, _), unary(_), call(_),
          CallLoop(_), finish_call(_), Arguments(_), ArgumentsNext(_), primary(_)

expression(s) == assignment(s)

assignment(s) == AssignTail(or(s))

(* assignment, after the left-hand side *)
AssignTail(s) ==
    IF Failed(s) \/ ~Matches(s, {"Equal"}) THEN s
    ELSE IF At(s, 0).t = "Variable" THEN MkAssign(assignment(advance(s)))
    ELSE Fail(advance(s), parse_error(peek(s), "Invalid assignment target."))

or(s) == OrLoop(and(s))

OrLoop(s) ==
    IF Failed(s) \/ ~Matches(s, {"Or"}) THEN s
    ELSE OrLoop(MkLogical(and(Push(advance(s), peek(s)))))

and(s) == AndLoop(binary_expression(s, "equality"))

AndLoop(s) ==
    IF Failed(s) \/ ~Matches(s, {"And"}) THEN s
    ELSE AndLoop(MkLogical(binary_expression(Push(advance(s), peek(s)), "equality")))

(* equality, comparison, term and factor, and unary as the next of factor *)
binary_expression(s, level) ==
    IF level = "unary" THEN unary(s)
    ELSE BinaryLoop(binary_expression(s, BinaryNext(level)), level)

BinaryLoop(s, level) ==
    IF Failed(s) \/ ~Matches(s, BinaryTypes(level)) THEN s
    ELSE BinaryLoop(MkBinary(binary_expression(Push(advance(s), peek(s)),
                                               BinaryNext(level))),
                    level)

unary(s) ==
    IF Failed(s) THEN s
    ELSE IF Matches(s, {"Bang", "Minus"})
    THEN MkUnary(unary(Push(advance(s), peek(s))))
    ELSE call(s)

call(s) == CallLoop(primary(s))

CallLoop(s) ==
    IF Failed(s) \/ ~Matches(s, {"LeftParen"}) THEN s
    ELSE CallLoop(finish_call(advance(s)))

finish_call(s) ==
    MkCall(consume(IF check(s, "RightParen") THEN Push(s, <<>>)
                   ELSE Arguments(Push(s, <<>>)),
                   "RightParen", "Expect ')' after arguments."))

Arguments(s) ==
    ArgumentsNext(PushItem(expression(Limit(s, "Can't have more than 255 arguments."))))

ArgumentsNext(s) ==
    IF Failed(s) \/ ~Matches(s, {"Comma"}) THEN s ELSE Arguments(advance(s))

primary(s) ==
    IF Failed(s) THEN s
    ELSE CASE Matches(s, {"False"}) -> Push(advance(s), LiteralExpr(Bool(FALSE)))
           [] Matches(s, {"True"}) -> Push(advance(s), LiteralExpr(Bool(TRUE)))
           [] Matches(s, {"Nil"}) -> Push(advance(s), LiteralExpr(Nil))
           [] Matches(s, {"Number"}) ->
                 Push(advance(s), LiteralExpr(Number(NumberOf(peek(s).lexeme))))
           [] Matches(s, {"StringLiteral"}) ->
                 Push(advance(s), LiteralExpr(String(Unquote(peek(s).lexeme))))
           [] Matches(s, {"Identifier"}) -> Push(advance(s), VariableExpr(peek(s)))
           [] Matches(s, {"LeftParen"}) ->
                 Grouped(Expect(expression(advance(s)), "RightParen",
                                "Expect ')' after expression."))
           [] OTHER -> Fail(s, parse_error(peek(s), "Expect expression."))

WrapSome(s) == IF Failed(s) THEN s ELSE Replace(s, 1, Some(At(s, 0)))

MkVar(s) == IF Failed(s) THEN s ELSE Replace(s, 2, VarStmt(At(s, 1), At(s, 0)))

MkPrint(s) == IF Failed(s) THEN s ELSE Replace(s, 1, PrintStmt(At(s, 0)))

MkExpr(s) == IF Failed(s) THEN s ELSE Replace(s, 1, ExprStmt(At(s, 0)))

MkReturn(s) == IF Failed(s) THEN s ELSE Replace(s, 2, ReturnStmt(At(s, 1), At(s, 0)))

MkIf(s) == IF Failed(s) THEN s ELSE Replace(s, 3, IfStmt(At(s, 2), At(s, 1), At(s, 0)))

MkWhile(s) == IF Failed(s) THEN s ELSE Replace(s, 2, WhileStmt(At(s, 1), At(s, 0)))

MkBlock(s) == IF Failed(s) THEN s ELSE Replace(s, 1, BlockStmt(At(s, 0)))

(* the FunctionStmt; its id, standing for its address, is where it starts *)
MkFunction(s) ==
    IF Failed(s) THEN s
    ELSE Replace(s, 4, FunctionStmt(At(s, 3), At(s, 2), At(s, 1), At(s, 0)))

(* for_statement: the body followed by the increment, if there is one *)
body_with_increment_first(increment, body) ==
    IF increment.some THEN BlockStmt(<<ExprStmt(increment.v), body>>) ELSE body

body_with_increment(increment, body) ==
    IF increment.some THEN BlockStmt(<<body, ExprStmt(increment.v)>>) ELSE body

body_with_condition(condition, body) == WhileStmt(condition, body)

body_with_initializer(initializer, loop) ==
    IF initializer.some THEN BlockStmt(<<initializer.v, loop>>) ELSE loop

ForTree(s) ==
    IF Failed(s) THEN s
    ELSE Replace(s, 4,
             body_with_initializer(At(s, 3),
                 body_with_condition(At(s, 2),
                     body_with_increment(At(s, 1), At(s, 0)))))

RECURSIVE declaration(_), var_declaration(_), Initializer(_), statement(_),
          print_statement(_), return_statement(_), ReturnValue(_), if_statement(_),
          Else(_), while_statement(_), for_statement(_), ForInitializer(_),
          ForCondition(_), ForIncrement(_), block(_), BlockLoop(_),
          block_statement(_), expression_statement(_), function(_, _),
          Parameters(_), ParametersNext(_)

declaration(s) ==
    IF Failed(s) THEN s
    ELSE IF Matches(s, {"Var"}) THEN var_declaration(advance(s))
    ELSE IF Matches(s, {"Fun"}) THEN function(advance(s), "function")
    ELSE statement(s)

var_declaration(s) ==
    MkVar(Expect(Initializer(consume(s, "Identifier", "Expect variable name.")),
                 "Semicolon", "Expect ';' after variable declaration."))

Initializer(s) ==
    IF Failed(s) THEN s
    ELSE IF Matches(s, {"Equal"}) THEN WrapSome(expression(advance(s)))
    ELSE Push(s, None)

statement(s) ==
    IF Failed(s) THEN s
    ELSE CASE Matches(s, {"LeftBrace"}) -> block_statement(advance(s))
           [] Matches(s, {"If"}) -> if_statement(advance(s))
           [] Matches(s, {"While"}) -> while_statement(advance(s))
           [] Matches(s, {"For"}) -> for_statement(advance(s))
           [] Matches(s, {"Print"}) -> print_statement(advance(s))
           [] Matches(s, {"Return"}) -> return_statement(advance(s))
           [] OTHER -> expression_statement(s)

print_statement(s) ==
    MkPrint(Expect(expression(s), "Semicolon", "Expect ';' after value."))

return_statement(s) ==
    MkReturn(Expect(ReturnValue(Push(s, previous(s))),
                    "Semicolon", "Expect ';' after return value."))

ReturnValue(s) ==
    IF check(s, "Semicolon") THEN Push(s, None) ELSE WrapSome(expression(s))

if_statement(s) ==
    MkIf(Else(statement(Expect(expression(Expect(s, "LeftParen",
                                                 "Expect '(' after 'if'.")),
                               "RightParen", "Expect ')' after if condition."))))

Else(s) ==
    IF Failed(s) THEN s
    ELSE IF Matches(s, {"Else"}) THEN WrapSome(statement(advance(s)))
    ELSE Push(s, None)

while_statement(s) ==
    MkWhile(statement(Expect(expression(Expect(s, "LeftParen",
                                               "Expect '(' after 'while'.")),
                             "RightParen", "Expect ')' after if condition.")))

for_statement(s) ==
    ForTree(statement(
        Expect(ForIncrement(
                   Expect(ForCondition(
                              ForInitializer(
                                  Expect(s, "LeftParen", "Expect '(' after 'for'."))),
                          "Semicolon", "Expect ';' after loop condition.")),
               "RightParen", "Expect ')' after for clause.")))

ForInitializer(s) ==
    IF Failed(s) THEN s
    ELSE IF Matches(s, {"Semicolon"}) THEN Push(advance(s), None)
    ELSE IF Matches(s, {"Var"}) THEN WrapSome(var_declaration(advance(s)))
    ELSE WrapSome(expression_statement(s))

ForCondition(s) ==
    IF Failed(s) THEN s
    ELSE IF check(s, "Semicolon") THEN Push(s, LiteralExpr(Bool(TRUE)))
    ELSE expression(s)

ForIncrement(s) ==
    IF Failed(s) THEN s
    ELSE IF check(s, "RightParen") THEN Push(s, None)
    ELSE WrapSome(expression(s))

block(s) == Expect(BlockLoop(Push(s, <<>>)), "RightBrace", "Expect '}' after block.")

BlockLoop(s) ==
    IF Failed(s) \/ is_at_end(s) \/ check(s, "RightBrace") THEN s
    ELSE BlockLoop(PushItem(declaration(s)))

block_statement(s) == MkBlock(block(s))

expression_statement(s) ==
    MkExpr(Expect(expression(s), "Semicolon", "Expect ';' after value."))

function(s, kind) ==
    MkFunction(
        block(Expect(Expect(Parameters(
                                Expect(consume(Push(s, s.current), "Identifier",
                                               "Expect " \o kind \o " name."),
                                       "LeftParen",
                                       "Expect '(' after " \o kind \o " name.")),
                            "RightParen", "Expect ')' after parameters."),
                     "LeftBrace", "Expect '{' before " \o kind \o " body.")))

Parameters(s) ==
    IF Failed(s) THEN s
    ELSE IF check(s, "RightParen") THEN Push(s, <<>>)
    ELSE ParametersNext(
             PushItem(consume(Limit(Push(s, <<>>),
                                    "Can't have more than 255 parameters."),
                              "Identifier", "Expect parameter name.")))

ParametersNext(s) ==
    IF Failed(s) \/ ~Matches(s, {"Comma"}) THEN s
    ELSE ParametersNext(
             PushItem(consume(Limit(advance(s),
                                    "Can't have more than 255 parameters."),
                              "Identifier", "Expect parameter name.")))

RECURSIVE Synchronizing(_)
Synchronizing(s) ==
    IF s.aborted \/ is_at_end(s) \/ previous(s).type_ = "Semicolon" THEN s
    ELSE IF peek(s).type_ \in {"Class", "Fun", "Var", "For", "If", "While", "Print",
                               "Return"}
    THEN s
    ELSE Synchronizing(advance(s))

(* synchronize as it would be if only a semicolon ended the skipping (C22) *)
RECURSIVE SkipPastSemicolon(_)
SkipPastSemicolon(s) ==
    IF is_at_end(s) \/ previous(s).type_ = "Semicolon" THEN s
    ELSE SkipPastSemicolon(advance(s))

synchronize_past_keywords(s) == SkipPastSemicolon(advance(s))

synchronize(s) == Synchronizing(advance(s))

(* program's match on the declaration: it is pushed, or its error is, and  *)
(* the parser synchronizes                                                 *)
Declared(s) ==
    IF Failed(s)
    THEN synchronize([s EXCEPT !.errors = Append(@, s.err.v), !.err = None,
                               !.out = <<>>])
    ELSE [s EXCEPT !.stmts = Append(@, At(s, 0)), !.out = <<>>]

RECURSIVE program(_)
program(s) ==
    IF s.aborted \/ is_at_end(s) THEN s ELSE program(Declared(declaration(s)))

(* ParseResult as it would be if the program were returned whatever was *)
(* recorded (C30)                                                       *)
ParseResultProgram(s) == IF s.aborted THEN Panic ELSE Ok(s.stmts)


ParseResult(s) ==
    IF s.aborted THEN Panic
    ELSE IF Len(s.errors) > 0 THEN Err(s.errors) ELSE Ok(s.stmts)

parse(tokens) == ParseResult(program(Parser(tokens)))

-----------------------------------------------------------------------------
(* resolver.rs.  The resolver state r is threaded through the walk; every  *)
(* resolve_* operator returns the state after the call in r and the        *)
(* (mutated) node in n.                                                    *)

Resolver_new ==
    [scopes |-> <<>>, errors |-> <<>>, current_function |-> "None",
     current_class |-> "None"]

(* errors.push as it would be if only the first error were kept (C20) *)
PushErrorOnce(r, err) ==
    IF Len(r.errors) > 0 THEN r ELSE [r EXCEPT !.errors = Append(@, err)]


PushError(r, err) == [r EXCEPT !.errors = Append(@, err)]

begin_scope(r) == [r EXCEPT !.scopes = Append(@, EmptyMap)]

end_scope(r) == [r EXCEPT !.scopes = SubSeq(@, 1, Len(@) - 1)]

(* scope.insert(key, flag) on scopes.last_mut(), when there is a scope *)
InsertLast(r, key, flag) ==
    IF Len(r.scopes) = 0 THEN r
    ELSE [r EXCEPT !.scopes[Len(r.scopes)] = Insert(@, key, flag)]

(* declare as it would be if a second declaration were accepted (C17) *)
declare_again(r, name) == InsertLast(r, name.lexeme, FALSE)


declare(r, name) ==
    IF Len(r.scopes) = 0 THEN r
    ELSE LET r1 == IF ContainsKey(r.scopes[Len(r.scopes)], name.lexeme)
                   THEN PushError(r, parse_error(name,
                            "Already a variable with this name in this scope."))
                   ELSE r
         IN InsertLast(r1, name.lexeme, FALSE)

define(r, name) == InsertLast(r, name.lexeme, TRUE)

(* the distance from the innermost scope to the first scope holding the name *)
RECURSIVE ScanScopes(_, _, _)
ScanScopes(scopes, i, lexeme) ==
    IF i > Len(scopes) - 1 THEN None
    ELSE IF ContainsKey(scopes[Len(scopes) - i], lexeme) THEN Some(i)
    ELSE ScanScopes(scopes, i + 1, lexeme)

resolve_local(r, depth_field, name) ==
    LET found == ScanScopes(r.scopes, 0, name.lexeme)
    IN IF found.some THEN found ELSE depth_field

(* resolve_variable as it would be without the check of the scope (C18) *)
resolve_variable_unchecked(r, node) ==
    [r |-> r, n |-> [node EXCEPT !.resolved_depth = resolve_local(r, @, node.name)]]


resolve_variable(r, node) ==
    LET r1 == IF /\ Len(r.scopes) > 0
                 /\ ContainsKey(r.scopes[Len(r.scopes)], node.name.lexeme)
                 /\ r.scopes[Len(r.scopes)][node.name.lexeme] = FALSE
              THEN PushError(r, parse_error(node.name,
                       "Can't read local variable in its own initializer."))
              ELSE r
    IN [r |-> r1,
        n |-> [node EXCEPT !.resolved_depth = resolve_local(r1, @, node.name)]]

(* The walk threads a pair s = [r, n]: the resolver state and the node     *)
(* being rewritten in place.  Each *Field operator is one recursive call   *)
(* of the source on the named field of s.n.                                *)
With(r, node) == [n |-> node, r |-> r]

Put(a, node, field) == [n |-> [node EXCEPT ![field] = a.n], r |-> a.r]

PutSome(a, node, field) == [n |-> [node EXCEPT ![field] = Some(a.n)], r |-> a.r]

Prepend(x, b) == [n |-> <<x>> \o b.n, r |-> b.r]

ErrorIf(s, cond, token, message) ==
    IF cond THEN [s EXCEPT !.r = PushError(@, parse_error(token, message))] ELSE s

Local(s, name) == [s EXCEPT !.n.resolved_depth = resolve_local(s.r, @, name)]

Begin(s) == [s EXCEPT !.r = begin_scope(@)]

End(s) == [s EXCEPT !.r = end_scope(@)]

Declare(s, name) == [s EXCEPT !.r = declare(@, name)]

Define(s, name) == [s EXCEPT !.r = define(@, name)]

Restore(s, field, value) == [s EXCEPT !.r[field] = value]

RECURSIVE resolve_expr(_, _), resolve_exprs(_, _), ExprField(_, _),
          ExprsField(_, _), ConsExprs(_, _)
ExprField(s, field) == Put(resolve_expr(s.r, s.n[field]), s.n, field)

ExprsField(s, field) == Put(resolve_exprs(s.r, s.n[field]), s.n, field)

resolve_expr(r, expr) ==
    CASE expr.t = "Variable" -> resolve_variable(r, expr)
      [] expr.t = "Assign" -> Local(ExprField(With(r, expr), "value"), expr.name)
      [] expr.t = "Super" ->
            Local(ErrorIf(ErrorIf(With(r, expr),
                                  r.current_class = "None", expr.keyword,
                                  "Can't use 'super' outside of a class."),
                          r.current_class = "Class", expr.keyword,
                          "Can't use 'super' in a class with no superclass."),
                  expr.keyword)
      [] expr.t = "This" ->
            Local(ErrorIf(With(r, expr), r.current_class = "None", expr.keyword,
                          "Can't use 'this' outside of a class."),
                  expr.keyword)
      [] expr.t \in {"Binary", "Logical"} ->
            ExprField(ExprField(With(r, expr), "left"), "right")
      [] expr.t = "Call" ->
            ExprsField(ExprField(With(r, expr), "callee"), "arguments")
      [] expr.t = "Get" -> ExprField(With(r, expr), "object")
      [] expr.t = "Grouping" -> ExprField(With(r, expr), "expr")
      [] expr.t = "Literal" -> With(r, expr)
      [] expr.t = "Set" -> ExprField(ExprField(With(r, expr), "object"), "value")
      [] expr.t = "Unary" -> ExprField(With(r, expr), "right")

ConsExprs(a, rest) == Prepend(a.n, resolve_exprs(a.r, rest))

resolve_exprs(r, exprs) ==
    IF Len(exprs) = 0 THEN With(r, <<>>)
    ELSE ConsExprs(resolve_expr(r, Head(exprs)), Tail(exprs))

OptExprField(s, field) ==
    IF s.n[field].some
    THEN PutSome(resolve_expr(s.r, s.n[field].v), s.n, field)
    ELSE s

RECURSIVE DeclareParameters(_, _)
DeclareParameters(r, parameters) ==
    IF Len(parameters) = 0 THEN r
    ELSE DeclareParameters(define(declare(r, Head(parameters)), Head(parameters)),
                           Tail(parameters))

FunctionType(method) == IF method.name.lexeme = "init" THEN "Initializer" ELSE "Method"

(* if let Some(sup) = superclass: the self-inheritance check, or the       *)
(* resolution of the superclass variable                                   *)
Superclass(s) ==
    IF ~s.n.superclass.some THEN s
    ELSE IF s.n.superclass.v.name.lexeme = s.n.name.lexeme
    THEN ErrorIf(Restore(s, "current_class", "Subclass"), TRUE,
                 s.n.superclass.v.name, "A class can't inherit from itself.")
    ELSE PutSome(resolve_variable([s.r EXCEPT !.current_class = "Subclass"],
                                  s.n.superclass.v),
                 s.n, "superclass")

(* begin_scope and insert of the implicit name, when the condition holds *)
ImplicitScope(s, cond, name) ==
    IF cond THEN [s EXCEPT !.r = InsertLast(begin_scope(@), name, TRUE)] ELSE s

EndIf(s, cond) == IF cond THEN End(s) ELSE s

RECURSIVE resolve_stmt(_, _), resolve_stmts(_, _), resolve_function(_, _, _),
          resolve_methods(_, _), resolve_class(_, _), StmtField(_, _),
          OptStmtField(_, _), StmtsField(_, _), MethodsField(_, _),
          ConsStmts(_, _), ConsMethods(_, _)
StmtField(s, field) == Put(resolve_stmt(s.r, s.n[field]), s.n, field)

OptStmtField(s, field) ==
    IF s.n[field].some
    THEN PutSome(resolve_stmt(s.r, s.n[field].v), s.n, field)
    ELSE s

StmtsField(s, field) == Put(resolve_stmts(s.r, s.n[field]), s.n, field)

MethodsField(s, field) == Put(resolve_methods(s.r, s.n[field]), s.n, field)

ConsStmts(a, rest) == Prepend(a.n, resolve_stmts(a.r, rest))

resolve_stmts(r, stmts) ==
    IF Len(stmts) = 0 THEN With(r, <<>>)
    ELSE ConsStmts(resolve_stmt(r, Head(stmts)), Tail(stmts))

(* resolve_function as it would be if current_function were not restored (C19) *)
resolve_function_unrestored(r, node, type_) ==
    End(StmtsField(With(DeclareParameters(
                            begin_scope([r EXCEPT !.current_function = type_]),
                            node.parameters),
                        node),
                   "body"))


(* resolves the body of the FunctionStmt node; n is the node with the new body *)
resolve_function(r, node, type_) ==
    Restore(End(StmtsField(
                    With(DeclareParameters(
                             begin_scope([r EXCEPT !.current_function = type_]),
                             node.parameters),
                         node),
                    "body")),
            "current_function", r.current_function)

ConsMethods(a, rest) == Prepend(a.n, resolve_methods(a.r, rest))

resolve_methods(r, methods) ==
    IF Len(methods) = 0 THEN With(r, <<>>)
    ELSE ConsMethods(resolve_function(r, Head(methods), FunctionType(Head(methods))),
                     Tail(methods))

resolve_class(r, node) ==
    Restore(
        EndIf(End(MethodsField(
                      ImplicitScope(
                          ImplicitScope(
                              Superclass(Define(Declare(
                                  With([r EXCEPT !.current_class = "Class"], node),
                                  node.name), node.name)),
                              node.superclass.some, "super"),
                          TRUE, "this"),
                      "methods")),
              node.superclass.some),
        "current_class", r.current_class)

resolve_stmt(r, stmt) ==
    CASE stmt.t = "Block" -> End(StmtsField(Begin(With(r, stmt)), "stmts"))
      [] stmt.t = "Class" -> resolve_class(r, stmt)
      [] stmt.t = "Function" ->
            resolve_function(define(declare(r, stmt.name), stmt.name), stmt, "Function")
      [] stmt.t = "Return" ->
            OptExprField(
                ErrorIf(ErrorIf(With(r, stmt),
                                r.current_function = "None", stmt.keyword,
                                "Can't return from top-level code."),
                        stmt.value.some /\ r.current_function = "Initializer",
                        stmt.keyword, "Can't return a value from an initializer."),
                "value")
      [] stmt.t = "Var" ->
            Define(OptExprField(Declare(With(r, stmt), stmt.name), "initializer"),
                   stmt.name)
      [] stmt.t = "Expr" -> ExprField(With(r, stmt), "expr")
      [] stmt.t = "If" ->
            OptStmtField(StmtField(ExprField(With(r, stmt), "condition"), "then_"),
                         "else_")
      [] stmt.t = "Print" -> ExprField(With(r, stmt), "expr")
      [] stmt.t = "While" -> StmtField(ExprField(With(r, stmt), "condition"), "body")

Errors(s) == IF Len(s.r.errors) = 0 THEN Ok(s.n) ELSE Err(s.r.errors)

(* resolve: Ok with the mutated program, or Err with every recorded error *)
resolve(stmts) == Errors(resolve_stmts(Resolver_new, stmts))

-----------------------------------------------------------------------------
(* object.rs: classes, instances and method binding *)

Class(name, superclass, methods) ==
    [name |-> name, superclass |-> superclass, methods |-> methods]

Instance(class_) == [class_ |-> class_, fields |-> EmptyMap]

RECURSIVE Class_find_method(_, _, _)
Class_find_method(cs, c, name) ==
    IF ContainsKey(cs[c].methods, name) THEN Some(cs[c].methods[name])
    ELSE IF cs[c].superclass.some
         THEN Class_find_method(cs, cs[c].superclass.v, name)
         ELSE None

(* BindEnvironment as it would be if the cell had no parent (C10) *)
BindEnvironmentDetached(f, instance) ==
    Environment_define(Environment_new, "this", InstanceRef(instance))

(* Function::bind: the environment cell it creates *)
BindEnvironment(f, instance) ==
    Environment_define(Environment_child(f.closure), "this", InstanceRef(instance))

(* Function::bind with the new cell stored at handle e *)
Function_bind(f, e) == Function(f.declaration, e)

instance_get_field(is, inst, name) ==
    IF ContainsKey(is[inst].fields, name.lexeme)
    THEN Some(is[inst].fields[name.lexeme])
    ELSE None

instance_get_method(cs, is, inst, name) ==
    Class_find_method(cs, is[inst].class_, name.lexeme)

(* instance_get as it would be if methods were consulted before fields (C11) *)
instance_get_method_first(h, cs, is, inst, name) ==
    LET field == instance_get_field(is, inst, name)
        method == instance_get_method(cs, is, inst, name)
    IN IF method.some
       THEN [res |-> Ok(Function_bind(method.v, Len(h) + 1)),
             h |-> Append(h, BindEnvironment(method.v, inst))]
       ELSE IF field.some THEN [res |-> Ok(field.v), h |-> h]
            ELSE [res |-> Err(runtime_error(name,
                             "Undefined property '" \o name.lexeme \o "'.")),
                  h |-> h]

(* instance_get: the result in res, the environment heap after the call in h *)
instance_get(h, cs, is, inst, name) ==
    LET field == instance_get_field(is, inst, name)
        method == instance_get_method(cs, is, inst, name)
    IN IF field.some THEN [res |-> Ok(field.v), h |-> h]
       ELSE IF method.some
            THEN [res |-> Ok(Function_bind(method.v, Len(h) + 1)),
                  h |-> Append(h, BindEnvironment(method.v, inst))]
            ELSE [res |-> Err(runtime_error(name,
                             "Undefined property '" \o name.lexeme \o "'.")),
                  h |-> h]

Instance_set(inst, name, value) ==
    [inst EXCEPT !.fields = Insert(@, name.lexeme, value)]

(* fmt::Display for Object *)
Display(cs, is, o) ==
    CASE o.t = "Number" -> ToString(o.n)
      [] o.t = "Bool" -> IF o.b THEN "true" ELSE "false"
      [] o.t = "String" -> o.s
      [] o.t = "Nil" -> "nil"
      [] o.t = "BuiltinFunction" -> "<function " \o o.name \o ">"
      [] o.t = "Function" -> "<function " \o o.declaration.name.lexeme \o ">"
      [] o.t = "Class" -> "<class " \o cs[o.ref].name.lexeme \o ">"
      [] o.t = "Instance" ->
            "<instance of " \o cs[is[o.ref].class_].name.lexeme \o ">"

-----------------------------------------------------------------------------
(* Bounds of the model: the heaps and the output stop growing there. *)

MaxEnvs == 12

MaxObjects == 3

MaxPrinted == 6

MaxTime == 3

MaxLines == 2

(* Interpreter.globals: the first cell allocated *)
globals == 1

-----------------------------------------------------------------------------
(* The machine.                                                            *)
(*   ctrl.m = "eval": evaluate(ctrl.e) is being called                     *)
(*   ctrl.m = "exec": execute(ctrl.s) is being called                      *)
(*   ctrl.m = "val":  evaluate returned Ok(ctrl.v)                         *)
(*   ctrl.m = "ok":   execute / execute_stmts returned Ok(())              *)
(*   ctrl.m = "unw":  the call returned Err(ctrl.u), an Unwinder           *)
(*   ctrl.m = "call": callee and arguments are evaluated, dispatch is next *)
(*   ctrl.m = "panic": the process aborted                                 *)
(*   ctrl.m = "idle": the interpreter is not running                       *)

Eval(e) == [m |-> "eval", e |-> e]

Exec(s) == [m |-> "exec", s |-> s]

Val(v) == [m |-> "val", v |-> v]

Done == [m |-> "ok"]

Unwind(u) == [m |-> "unw", u |-> u]

Idle == [m |-> "idle"]

Unwinder_Return(keyword, value) ==
    [t |-> "Return", keyword |-> keyword, value |-> value]

Unwinder_Err(e) == [t |-> "Err", e |-> e]

Unwinder_err(token, message) == Unwind(Unwinder_Err(runtime_error(token, message)))

(* the machine's continuation after a call that returned res *)
Deliver(res) ==
    CASE res.tag = "Ok" -> Val(res.v)
      [] res.tag = "Err" -> Unwind(Unwinder_Err(res.e))
      [] res.tag = "Panic" -> [m |-> "panic"]

Top == kont[Len(kont)]

Rest == SubSeq(kont, 1, Len(kont) - 1)

Running == stage = "execute" /\ Len(kont) > 0

Evaluating(t) == Running /\ ctrl.m = "eval" /\ ctrl.e.t = t

Executing(t) == Running /\ ctrl.m = "exec" /\ ctrl.s.t = t

Returned(k) == Running /\ ctrl.m = "val" /\ Top.k = k

pipeline == <<entry, lines, src, stage, prog, result>>

(* execute_stmts: the frame of a call with this list and environment *)
StmtsFrame(stmts, env, prev) ==
    [k |-> "Stmts", stmts |-> stmts, i |-> 1, environment |-> env, prev |-> prev]

lookup_variable(h, env, resolved_depth, name) ==
    IF resolved_depth.some
    THEN Environment_get_at(h, env, resolved_depth.v, name)
    ELSE Environment_get(h, globals, name)

-----------------------------------------------------------------------------
(* Interpreter::evaluate *)

EvalAssign ==
    /\ Evaluating("Assign")
    /\ kont' = Append(kont, [k |-> "Assign", node |-> ctrl.e])
    /\ ctrl' = Eval(ctrl.e.value)
    /\ UNCHANGED <<pipeline, printed, time, heap, environment>>

ContAssign ==
    /\ Returned("Assign")
    /\ LET node == Top.node
           res == IF node.resolved_depth.some
                  THEN Environment_assign_at(envs, environment,
                           node.resolved_depth.v, node.name, ctrl.v)
                  ELSE Environment_assign(envs, globals, node.name, ctrl.v)
       IN /\ envs' = IF res.tag = "Ok" THEN res.v ELSE envs
          /\ ctrl' = IF res.tag = "Ok" THEN Val(ctrl.v) ELSE Deliver(res)
    /\ kont' = Rest
    /\ UNCHANGED <<pipeline, printed, time, classes, instances, environment>>

EvalBinary ==
    /\ Evaluating("Binary")
    /\ kont' = Append(kont, [k |-> "BinaryL", node |-> ctrl.e])
    /\ ctrl' = Eval(ctrl.e.left)
    /\ UNCHANGED <<pipeline, printed, time, heap, environment>>

ContBinaryLeft ==
    /\ Returned("BinaryL")
    /\ kont' = Append(Rest, [k |-> "BinaryR", node |-> Top.node, left |-> ctrl.v])
    /\ ctrl' = Eval(Top.node.right)
    /\ UNCHANGED <<pipeline, printed, time, heap, environment>>

BothNumbers(l, r) == l.t = "Number" /\ r.t = "Number"

BinaryResult(operator, l, r) ==
    CASE operator.type_ = "Minus" ->
            IF BothNumbers(l, r) THEN Val(Number(l.n - r.n))
            ELSE Unwinder_err(operator, "invalid types for subtraction")
      [] operator.type_ = "Plus" ->
            IF BothNumbers(l, r) THEN Val(Number(l.n + r.n))
            ELSE IF l.t = "String" /\ r.t = "String" THEN Val(String(l.s \o r.s))
            ELSE Unwinder_err(operator, "invalid types for addition")
      [] operator.type_ = "Slash" ->
            \* numbers are the integers here: an exact quotient is that
            \* integer, any other f64 quotient is kept as the pair it is of
            IF ~BothNumbers(l, r)
            THEN Unwinder_err(operator, "invalid types for division")
            ELSE IF r.n > 0 /\ l.n % r.n = 0 THEN Val(Number(l.n \div r.n))
            ELSE IF r.n < 0 /\ l.n % (0 - r.n) = 0
            THEN Val(Number((0 - l.n) \div (0 - r.n)))
            ELSE Val(Number(<<l.n, r.n>>))
      [] operator.type_ = "Star" ->
            IF BothNumbers(l, r) THEN Val(Number(l.n * r.n))
            ELSE Unwinder_err(operator, "invalid types for multiplication")
      [] operator.type_ = "Greater" ->
            IF BothNumbers(l, r) THEN Val(Bool(l.n > r.n))
            ELSE Unwinder_err(operator, "invalid types for comparison")
      [] operator.type_ = "GreaterEqual" ->
            IF BothNumbers(l, r) THEN Val(Bool(l.n >= r.n))
            ELSE Unwinder_err(operator, "invalid types for comparison")
      [] operator.type_ = "Less" ->
            IF BothNumbers(l, r) THEN Val(Bool(l.n < r.n))
            ELSE Unwinder_err(operator, "invalid types for comparison")
      [] operator.type_ = "LessEqual" ->
            IF BothNumbers(l, r) THEN Val(Bool(l.n <= r.n))
            ELSE Unwinder_err(operator, "invalid types for comparison")
      [] operator.type_ = "EqualEqual" -> Val(Bool(Object_eq(l, r)))
      [] operator.type_ = "BangEqual" -> Val(Bool(~Object_eq(l, r)))
      [] OTHER -> Unwinder_err(operator, "unknown operator (parser bug?)")

ContBinaryRight ==
    /\ Returned("BinaryR")
    /\ ctrl' = BinaryResult(Top.node.operator, Top.left, ctrl.v)
    /\ kont' = Rest
    /\ UNCHANGED <<pipeline, printed, time, heap, environment>>

EvalCall ==
    /\ Evaluating("Call")
    /\ kont' = Append(kont, [k |-> "CallCallee", node |-> ctrl.e])
    /\ ctrl' = Eval(ctrl.e.callee)
    /\ UNCHANGED <<pipeline, printed, time, heap, environment>>

(* NextArgument as it would be if arguments were evaluated last to first (C14) *)
NextArgumentFromRight(node, arguments) ==
    IF Len(arguments) < Len(node.arguments)
    THEN Eval(node.arguments[Len(node.arguments) - Len(arguments)])
    ELSE [m |-> "call"]

(* the loop over node.arguments: the next argument, or the dispatch *)
NextArgument(node, arguments) ==
    IF Len(arguments) < Len(node.arguments)
    THEN Eval(node.arguments[Len(arguments) + 1])
    ELSE [m |-> "call"]

ContCallCallee ==
    /\ Returned("CallCallee")
    /\ kont' = Append(Rest, [k |-> "CallArgs", node |-> Top.node, callee |-> ctrl.v,
                             arguments |-> <<>>])
    /\ ctrl' = NextArgument(Top.node, <<>>)
    /\ UNCHANGED <<pipeline, printed, time, heap, environment>>

ContCallArgument ==
    /\ Returned("CallArgs")
    /\ kont' = Append(Rest, [Top EXCEPT !.arguments = Append(@, ctrl.v)])
    /\ ctrl' = NextArgument(Top.node, Append(Top.arguments, ctrl.v))
    /\ UNCHANGED <<pipeline, printed, time, heap, environment>>

Dispatching(t) == Running /\ ctrl.m = "call" /\ Top.k = "CallArgs" /\ Top.callee.t = t

(* ArityError as it would be if the two counts changed places (C29) *)
ArityErrorSwapped(paren, arity, got) ==
    Unwinder_err(paren, "Expected " \o ToString(got) \o " arguments but got "
                        \o ToString(arity) \o ".")


ArityError(paren, arity, got) ==
    Unwinder_err(paren, "Expected " \o ToString(arity) \o " arguments but got "
                        \o ToString(got) \o ".")

(* clock is the only builtin: the counter of execute_for_tests, or the     *)
(* system time of interpreter(), which can be any number                   *)
CallBuiltin ==
    /\ Dispatching("BuiltinFunction")
    /\ IF Top.callee.arity # Len(Top.arguments)
       THEN /\ ctrl' = ArityError(Top.node.paren, Top.callee.arity, Len(Top.arguments))
            /\ time' = time
       ELSE IF entry = "test"
            THEN /\ time < MaxTime
                 /\ time' = time + 1
                 /\ ctrl' = Val(Number(time + 1))
            ELSE /\ time' = time
                 /\ \E t \in 1..MaxTime : ctrl' = Val(Number(t))
    /\ kont' = Rest
    /\ UNCHANGED <<pipeline, printed, heap, environment>>

RECURSIVE DefineParameters(_, _, _)
DefineParameters(env, parameters, arguments) ==
    IF Len(parameters) = 0 THEN env
    ELSE DefineParameters(
             Environment_define(env, Head(parameters).lexeme, Head(arguments)),
             Tail(parameters), Tail(arguments))

(* CallEnvironment as it would be under dynamic scoping (C4) *)
CallEnvironmentOfCaller(f, current) == Environment_child(current)

(* the environment of an invocation of f made while current is the       *)
(* interpreter's environment                                             *)
CallEnvironment(f, current) == Environment_child(f.closure)

CallFunction ==
    /\ Dispatching("Function")
    /\ LET f == Top.callee
           node == Top.node
           new == Len(envs) + 1
       IN IF Len(f.declaration.parameters) # Len(Top.arguments)
          THEN /\ ctrl' = ArityError(node.paren, Len(f.declaration.parameters),
                                     Len(Top.arguments))
               /\ kont' = Rest
               /\ UNCHANGED <<envs, environment>>
          ELSE /\ Len(envs) < MaxEnvs
               /\ envs' = Append(envs,
                              DefineParameters(CallEnvironment(f, environment),
                                  f.declaration.parameters, Top.arguments))
               /\ kont' = Rest \o <<[k |-> "CallFn", f |-> f, environment |-> new],
                                    StmtsFrame(f.declaration.body, new, environment)>>
               /\ environment' = new
               /\ ctrl' = Done
    /\ UNCHANGED <<pipeline, printed, time, classes, instances>>

(* the match on the result of the body: Ok(()), Err(Err(e)), Err(Return) *)
(* FunctionResult as it would be if a call frame swallowed a runtime error (C21) *)
FunctionResultCatches(c) ==
    CASE c.m = "ok" -> Val(Nil)
      [] c.m = "unw" /\ c.u.t = "Err" -> Val(Nil)
      [] c.m = "unw" /\ c.u.t = "Return" -> Val(c.u.value)

FunctionResult(c) ==
    CASE c.m = "ok" -> Val(Nil)
      [] c.m = "unw" /\ c.u.t = "Err" -> c
      [] c.m = "unw" /\ c.u.t = "Return" -> Val(c.u.value)

ContCallFunction ==
    /\ Running /\ ctrl.m \in {"ok", "unw"} /\ Top.k = "CallFn"
    /\ ctrl' = FunctionResult(ctrl)
    /\ kont' = Rest
    /\ UNCHANGED <<pipeline, printed, time, heap, environment>>

CallClass ==
    /\ Dispatching("Class")
    /\ IF Len(Top.arguments) # 0
       THEN /\ ctrl' = ArityError(Top.node.paren, 0, Len(Top.arguments))
            /\ UNCHANGED instances
       ELSE /\ Len(instances) < MaxObjects
            /\ instances' = Append(instances, Instance(Top.callee.ref))
            /\ ctrl' = Val(InstanceRef(Len(instances) + 1))
    /\ kont' = Rest
    /\ UNCHANGED <<pipeline, printed, time, envs, classes, environment>>

CallNotCallable ==
    /\ Running /\ ctrl.m = "call" /\ Top.k = "CallArgs"
    /\ Top.callee.t \notin {"BuiltinFunction", "Function", "Class"}
    /\ ctrl' = Unwinder_err(Top.node.paren,
                   "Can only call functions and classes, got '"
                   \o Display(classes, instances, Top.callee) \o "'.")
    /\ kont' = Rest
    /\ UNCHANGED <<pipeline, printed, time, heap, environment>>

EvalGet ==
    /\ Evaluating("Get")
    /\ kont' = Append(kont, [k |-> "Get", node |-> ctrl.e])
    /\ ctrl' = Eval(ctrl.e.object)
    /\ UNCHANGED <<pipeline, printed, time, heap, environment>>

ContGet ==
    /\ Returned("Get")
    /\ IF ctrl.v.t = "Instance"
       THEN LET g == instance_get(envs, classes, instances, ctrl.v.ref, Top.node.name)
            IN /\ Len(g.h) <= MaxEnvs
               /\ envs' = g.h
               /\ ctrl' = Deliver(g.res)
       ELSE /\ ctrl' = Unwinder_err(Top.node.name,
                           "Only instances have properties, got '"
                           \o Display(classes, instances, ctrl.v) \o "'.")
            /\ envs' = envs
    /\ kont' = Rest
    /\ UNCHANGED <<pipeline, printed, time, classes, instances, environment>>

EvalGrouping ==
    /\ Evaluating("Grouping")
    /\ ctrl' = Eval(ctrl.e.expr)
    /\ UNCHANGED <<pipeline, printed, time, heap, environment, kont>>

EvalLiteral ==
    /\ Evaluating("Literal")
    /\ ctrl' = Val(ctrl.e.value)
    /\ UNCHANGED <<pipeline, printed, time, heap, environment, kont>>

EvalLogical ==
    /\ Evaluating("Logical")
    /\ kont' = Append(kont, [k |-> "Logical", node |-> ctrl.e])
    /\ ctrl' = Eval(ctrl.e.left)
    /\ UNCHANGED <<pipeline, printed, time, heap, environment>>

(* LogicalResult as it would be if the operator yielded a boolean (C15) *)
LogicalResultCoerced(node, left) ==
    CASE node.operator.type_ = "Or" /\ Object_is_truthy(left) -> Val(Bool(TRUE))
      [] node.operator.type_ = "And" /\ ~Object_is_truthy(left) -> Val(Bool(FALSE))
      [] node.operator.type_ \in {"Or", "And"} -> Eval(node.right)
      [] OTHER -> Unwinder_err(node.operator, "unknown operator (parser bug?)")

LogicalResult(node, left) ==
    CASE node.operator.type_ = "Or" /\ Object_is_truthy(left) -> Val(left)
      [] node.operator.type_ = "And" /\ ~Object_is_truthy(left) -> Val(left)
      [] node.operator.type_ \in {"Or", "And"} -> Eval(node.right)
      [] OTHER -> Unwinder_err(node.operator, "unknown operator (parser bug?)")

ContLogical ==
    /\ Returned("Logical")
    /\ ctrl' = LogicalResult(Top.node, ctrl.v)
    /\ kont' = Rest
    /\ UNCHANGED <<pipeline, printed, time, heap, environment>>

EvalSet ==
    /\ Evaluating("Set")
    /\ kont' = Append(kont, [k |-> "SetObject", node |-> ctrl.e])
    /\ ctrl' = Eval(ctrl.e.object)
    /\ UNCHANGED <<pipeline, printed, time, heap, environment>>

ContSetObject ==
    /\ Returned("SetObject")
    /\ IF ctrl.v.t = "Instance"
       THEN /\ kont' = Append(Rest, [k |-> "SetValue", node |-> Top.node,
                                     obj |-> ctrl.v.ref])
            /\ ctrl' = Eval(Top.node.value)
       ELSE /\ kont' = Rest
            /\ ctrl' = Unwinder_err(Top.node.name,
                           "Only instances have fields, got '"
                           \o Display(classes, instances, ctrl.v) \o "'.")
    /\ UNCHANGED <<pipeline, printed, time, heap, environment>>

ContSetValue ==
    /\ Returned("SetValue")
    /\ instances' = [instances EXCEPT ![Top.obj] =
                         Instance_set(@, Top.node.name, ctrl.v)]
    /\ ctrl' = Val(ctrl.v)
    /\ kont' = Rest
    /\ UNCHANGED <<pipeline, printed, time, envs, classes, environment>>

EvalThis ==
    /\ Evaluating("This")
    /\ ctrl' = Deliver(lookup_variable(envs, environment, ctrl.e.resolved_depth,
                                       ctrl.e.keyword))
    /\ UNCHANGED <<pipeline, printed, time, heap, environment, kont>>

EvalUnary ==
    /\ Evaluating("Unary")
    /\ kont' = Append(kont, [k |-> "Unary", node |-> ctrl.e])
    /\ ctrl' = Eval(ctrl.e.right)
    /\ UNCHANGED <<pipeline, printed, time, heap, environment>>

UnaryResult(operator, right) ==
    CASE operator.type_ = "Bang" -> Val(Bool(~Object_is_truthy(right)))
      [] operator.type_ = "Minus" ->
            IF right.t = "Number" THEN Val(Number(0 - right.n))
            ELSE Unwinder_err(operator, "invalid type for negation")
      [] OTHER -> Unwinder_err(operator, "unknown operator (parser bug?)")

ContUnary ==
    /\ Returned("Unary")
    /\ ctrl' = UnaryResult(Top.node.operator, ctrl.v)
    /\ kont' = Rest
    /\ UNCHANGED <<pipeline, printed, time, heap, environment>>

EvalVariable ==
    /\ Evaluating("Variable")
    /\ ctrl' = Deliver(lookup_variable(envs, environment, ctrl.e.resolved_depth,
                                       ctrl.e.name))
    /\ UNCHANGED <<pipeline, printed, time, heap, environment, kont>>

-----------------------------------------------------------------------------
(* Interpreter::execute_stmts and Interpreter::execute *)

(* StmtsExitEnvironment as it would be if only the normal exit restored (C5) *)
StmtsExitOnlyNormal(frame, c, current) ==
    IF c.m = "unw" THEN current ELSE frame.prev

(* self.environment once execute_stmts has returned c from this frame *)
StmtsExitEnvironment(frame, c, current) == frame.prev

StmtsNext ==
    /\ Running /\ ctrl.m = "ok" /\ Top.k = "Stmts"
    /\ IF Top.i <= Len(Top.stmts)
       THEN /\ ctrl' = Exec(Top.stmts[Top.i])
            /\ kont' = Append(Rest, [Top EXCEPT !.i = @ + 1])
            /\ environment' = environment
       ELSE /\ ctrl' = Done
            /\ kont' = Rest
            /\ environment' = StmtsExitEnvironment(Top, ctrl, environment)
    /\ UNCHANGED <<pipeline, printed, time, heap>>

UnwindStmts ==
    /\ Running /\ ctrl.m = "unw" /\ Top.k = "Stmts"
    /\ environment' = StmtsExitEnvironment(Top, ctrl, environment)
    /\ kont' = Rest
    /\ UNCHANGED <<pipeline, printed, time, heap, ctrl>>

(* Propagate as it would be if a loop stopped a Return (C7) *)
PropagateStopsAtLoop(frame, c) ==
    IF frame.k = "WhileBody" /\ c.u.t = "Return" THEN Done ELSE c

(* what the frame does with an Err(c.u) of the call it waits for: every   *)
(* frame of evaluate and execute hands it on (the ? operator)             *)
Propagate(frame, c) == c

UnwindFrame ==
    /\ Running /\ ctrl.m = "unw" /\ Top.k \notin {"Stmts", "CallFn", "Program"}
    /\ ctrl' = Propagate(Top, ctrl)
    /\ kont' = Rest
    /\ UNCHANGED <<pipeline, printed, time, heap, environment>>

ExecBlock ==
    /\ Executing("Block")
    /\ Len(envs) < MaxEnvs
    /\ envs' = Append(envs, Environment_child(environment))
    /\ kont' = Append(kont, StmtsFrame(ctrl.s.stmts, Len(envs) + 1, environment))
    /\ environment' = Len(envs) + 1
    /\ ctrl' = Done
    /\ UNCHANGED <<pipeline, printed, time, classes, instances>>

RECURSIVE ClassMethods(_, _)
ClassMethods(methods, closure) ==
    IF Len(methods) = 0 THEN EmptyMap
    ELSE Insert(ClassMethods(SubSeq(methods, 1, Len(methods) - 1), closure),
                methods[Len(methods)].name.lexeme,
                Function(methods[Len(methods)], closure))

(* the Class value the statement builds while env is the current environment *)
ClassOf(node, env) == Class(node.name, None, ClassMethods(node.methods, env))

ExecClass ==
    /\ Executing("Class")
    /\ Len(classes) < MaxObjects
    /\ LET node == ctrl.s
           defined == [envs EXCEPT ![environment] =
                           Environment_define(@, node.name.lexeme, Nil)]
           res == Environment_assign(defined, environment, node.name,
                                     ClassRef(Len(classes) + 1))
       IN /\ classes' = Append(classes, ClassOf(node, environment))
          /\ envs' = IF res.tag = "Ok" THEN res.v ELSE defined
          /\ ctrl' = IF res.tag = "Ok" THEN Done ELSE Deliver(res)
    /\ UNCHANGED <<pipeline, printed, time, instances, environment, kont>>

ExecExpr ==
    /\ Executing("Expr")
    /\ kont' = Append(kont, [k |-> "ExprStmt"])
    /\ ctrl' = Eval(ctrl.s.expr)
    /\ UNCHANGED <<pipeline, printed, time, heap, environment>>

ContExpr ==
    /\ Returned("ExprStmt")
    /\ ctrl' = Done
    /\ kont' = Rest
    /\ UNCHANGED <<pipeline, printed, time, heap, environment>>

(* FunctionOf as it would be if functions captured the globals (C3) *)
FunctionOfGlobals(node, env) == Function(node, globals)

(* the Function value the declaration creates while env is current *)
FunctionOf(node, env) == Function(node, env)

ExecFunction ==
    /\ Executing("Function")
    /\ envs' = [envs EXCEPT ![environment] =
                    Environment_define(@, ctrl.s.name.lexeme,
                                       FunctionOf(ctrl.s, environment))]
    /\ ctrl' = Done
    /\ UNCHANGED <<pipeline, printed, time, classes, instances, environment, kont>>

ExecIf ==
    /\ Executing("If")
    /\ kont' = Append(kont, [k |-> "If", node |-> ctrl.s])
    /\ ctrl' = Eval(ctrl.s.condition)
    /\ UNCHANGED <<pipeline, printed, time, heap, environment>>

ContIf ==
    /\ Returned("If")
    /\ ctrl' = IF Object_is_truthy(ctrl.v) THEN Exec(Top.node.then_)
               ELSE IF Top.node.else_.some THEN Exec(Top.node.else_.v)
               ELSE Done
    /\ kont' = Rest
    /\ UNCHANGED <<pipeline, printed, time, heap, environment>>

ExecPrint ==
    /\ Executing("Print")
    /\ kont' = Append(kont, [k |-> "Print"])
    /\ ctrl' = Eval(ctrl.s.expr)
    /\ UNCHANGED <<pipeline, printed, time, heap, environment>>

ContPrint ==
    /\ Returned("Print")
    /\ Len(printed) < MaxPrinted
    /\ printed' = Append(printed, Display(classes, instances, ctrl.v))
    /\ ctrl' = Done
    /\ kont' = Rest
    /\ UNCHANGED <<pipeline, time, heap, environment>>

ExecReturn ==
    /\ Executing("Return")
    /\ IF ctrl.s.value.some
       THEN /\ kont' = Append(kont, [k |-> "Return", node |-> ctrl.s])
            /\ ctrl' = Eval(ctrl.s.value.v)
       ELSE /\ kont' = kont
            /\ ctrl' = Unwind(Unwinder_Return(ctrl.s.keyword, Nil))
    /\ UNCHANGED <<pipeline, printed, time, heap, environment>>

ContReturn ==
    /\ Returned("Return")
    /\ ctrl' = Unwind(Unwinder_Return(Top.node.keyword, ctrl.v))
    /\ kont' = Rest
    /\ UNCHANGED <<pipeline, printed, time, heap, environment>>

ExecVar ==
    /\ Executing("Var")
    /\ IF ctrl.s.initializer.some
       THEN /\ kont' = Append(kont, [k |-> "Var", node |-> ctrl.s])
            /\ ctrl' = Eval(ctrl.s.initializer.v)
            /\ envs' = envs
       ELSE /\ kont' = kont
            /\ ctrl' = Done
            /\ envs' = [envs EXCEPT ![environment] =
                            Environment_define(@, ctrl.s.name.lexeme, Nil)]
    /\ UNCHANGED <<pipeline, printed, time, classes, instances, environment>>

ContVar ==
    /\ Returned("Var")
    /\ envs' = [envs EXCEPT ![environment] =
                    Environment_define(@, Top.node.name.lexeme, ctrl.v)]
    /\ ctrl' = Done
    /\ kont' = Rest
    /\ UNCHANGED <<pipeline, printed, time, classes, instances, environment>>

ExecWhile ==
    /\ Executing("While")
    /\ kont' = Append(kont, [k |-> "WhileCond", node |-> ctrl.s])
    /\ ctrl' = Eval(ctrl.s.condition)
    /\ UNCHANGED <<pipeline, printed, time, heap, environment>>

ContWhileCond ==
    /\ Returned("WhileCond")
    /\ IF Object_is_truthy(ctrl.v)
       THEN /\ kont' = Append(Rest, [k |-> "WhileBody", node |-> Top.node])
            /\ ctrl' = Exec(Top.node.body)
       ELSE /\ kont' = Rest
            /\ ctrl' = Done
    /\ UNCHANGED <<pipeline, printed, time, heap, environment>>

ContWhileBody ==
    /\ Running /\ ctrl.m = "ok" /\ Top.k = "WhileBody"
    /\ kont' = Append(Rest, [k |-> "WhileCond", node |-> Top.node])
    /\ ctrl' = Eval(Top.node.condition)
    /\ UNCHANGED <<pipeline, printed, time, heap, environment>>

-----------------------------------------------------------------------------
(* Shorthands for writing programs as the parser builds them *)

V(x) == VariableExpr(Ident(x))

N(n) == LiteralExpr(Number(n))

S(x) == LiteralExpr(String(x))

B(b) == LiteralExpr(Bool(b))

RightParen == Token("RightParen", ")", 1)

Call0(callee) == CallExpr(callee, RightParen, <<>>)

Call1(callee, a) == CallExpr(callee, RightParen, <<a>>)

Bin(l, type_, lexeme, r) == BinaryExpr(l, Token(type_, lexeme, 1), r)

Plus(l, r) == Bin(l, "Plus", "+", r)

Set(x, e) == ExprStmt(AssignExpr(Ident(x), e))

Var(x, e) == VarStmt(Ident(x), Some(e))

Fun(id, name, parameters, body) ==
    FunctionStmt(id, Ident(name), [i \in DOMAIN parameters |-> Ident(parameters[i])],
                 body)

This == ThisExpr(Token("This", "this", 1))

Get(o, name) == GetExpr(o, Ident(name))

Ret(e) == ReturnStmt(Token("Return", "return", 1), Some(e))

RetNone == ReturnStmt(Token("Return", "return", 1), None)

Do(e) == ExprStmt(e)

Cls(name, superclass, methods) == ClassStmt(Ident(name), superclass, methods)

Parsed(stmts) == [scan |-> Ok("tokens"), parse |-> Ok(stmts)]

-----------------------------------------------------------------------------
(* The source texts run by the model.  Each is given by what scan_tokens   *)
(* and parse return for it.                                                *)

(* var a = "g"; { var a = "o"; { var a = "i"; print a; } print a; } print a; *)
SrcBlocks ==
    Parsed(<<Var("a", S("g")),
             BlockStmt(<<Var("a", S("o")),
                         BlockStmt(<<Var("a", S("i")), PrintStmt(V("a"))>>),
                         PrintStmt(V("a"))>>),
             PrintStmt(V("a"))>>)

(* fun makeCounter() { var i = 0; fun c() { i = i + 1; return i; } return c; } *)
(* var a = makeCounter(); var b = makeCounter();                              *)
(* print a(); print a(); print b(); print b();                                *)
SrcCounter ==
    Parsed(<<Fun(1, "makeCounter", <<>>,
                 <<Var("i", N(0)),
                   Fun(2, "c", <<>>, <<Set("i", Plus(V("i"), N(1))), Ret(V("i"))>>),
                   Ret(V("c"))>>),
             Var("a", Call0(V("makeCounter"))),
             Var("b", Call0(V("makeCounter"))),
             PrintStmt(Call0(V("a"))), PrintStmt(Call0(V("a"))),
             PrintStmt(Call0(V("b"))), PrintStmt(Call0(V("b")))>>)

(* var a = "global"; { fun f() { print a; } f(); <between> f(); }          *)
(* between: 1: var a = "block";  2: nothing;  3: a = "set";                *)
Between(choice) ==
    CASE choice = 1 -> <<Var("a", S("block"))>>
      [] choice = 2 -> <<>>
      [] choice = 3 -> <<Set("a", S("set"))>>

SrcScoping(choice) ==
    Parsed(<<Var("a", S("global")),
             BlockStmt(<<Fun(1, "f", <<>>, <<PrintStmt(V("a"))>>),
                         Do(Call0(V("f")))>>
                       \o Between(choice)
                       \o <<Do(Call0(V("f")))>>)>>)

(* class A {}                                                              *)
(* { var x = "outer"; { <inner> class B <sup> { m() { print x; } } B().m(); } } *)
(* choice 1: B < A;  2: B < A and var x = "inner";  3, 4: the same two     *)
(* with no superclass clause                                               *)
SrcSubclass(choice) ==
    Parsed(<<Cls("A", None, <<>>),
             BlockStmt(<<Var("x", S("outer")),
                         BlockStmt((IF choice \in {2, 4} THEN <<Var("x", S("inner"))>>
                                    ELSE <<>>)
                                   \o <<Cls("B",
                                            IF choice \in {3, 4} THEN None
                                            ELSE Some(V("A")),
                                            <<Fun(1, "m", <<>>,
                                                  <<PrintStmt(V("x"))>>)>>),
                                        Do(Call0(Get(Call0(V("B")), "m")))>>)>>)>>)

(* fun f() { while (true) { if (true) { { return 1; } } print 9; } print 9; } *)
(* fun g() { return; print 9; }                                            *)
(* { var y = 5; print f(); print g(); print y; }                           *)
SrcReturn ==
    Parsed(<<Fun(1, "f", <<>>,
                 <<WhileStmt(B(TRUE),
                       BlockStmt(<<IfStmt(B(TRUE),
                                          BlockStmt(<<BlockStmt(<<Ret(N(1))>>)>>),
                                          None),
                                   PrintStmt(N(9))>>)),
                   PrintStmt(N(9))>>),
             Fun(2, "g", <<>>, <<RetNone, PrintStmt(N(9))>>),
             BlockStmt(<<Var("y", N(5)),
                         PrintStmt(Call0(V("f"))),
                         PrintStmt(Call0(V("g"))),
                         PrintStmt(V("y"))>>)>>)

(* fun r(n) { if (n > 0) r(n - 1); print n; }  r(2);                        *)
SrcRecursion ==
    Parsed(<<Fun(1, "r", <<"n">>,
                 <<IfStmt(Bin(V("n"), "Greater", ">", N(0)),
                          Do(Call1(V("r"), Bin(V("n"), "Minus", "-", N(1)))),
                          None),
                   PrintStmt(V("n"))>>),
             Do(Call1(V("r"), N(2)))>>)

(* var a = 1; { var b = 2; { print -"x"; } print b; } print a;              *)
SrcError ==
    Parsed(<<Var("a", N(1)),
             BlockStmt(<<Var("b", N(2)),
                         BlockStmt(<<PrintStmt(UnaryExpr(Token("Minus", "-", 1),
                                                         S("x")))>>),
                         PrintStmt(V("b"))>>),
             PrintStmt(V("a"))>>)

(* var get; var set;                                                       *)
(* { var x = 0; fun g() { return x; } fun s(v) { x = v; }                  *)
(*   get = g; set = s; x = 5; }                                            *)
(* <op 1> <op 2> print get();        an op is set(1); set(2); or print get(); *)
SharedOp(op) ==
    CASE op = 0 -> PrintStmt(Call0(V("get")))
      [] op \in {1, 2} -> Do(Call1(V("set"), N(op)))

SrcShared(choice) ==
    Parsed(<<VarStmt(Ident("get"), None), VarStmt(Ident("set"), None),
             BlockStmt(<<Var("x", N(0)),
                         Fun(1, "g", <<>>, <<Ret(V("x"))>>),
                         Fun(2, "s", <<"v">>, <<Set("x", V("v"))>>),
                         Set("get", V("g")), Set("set", V("s")),
                         Set("x", N(5))>>),
             SharedOp(choice \div 3), SharedOp(choice % 3),
             PrintStmt(Call0(V("get")))>>)

(* 1: class C { init(a) { this.a = a; } }  var c = C(1); print c.a;        *)
(* 2: class C { init() { print "init"; return; } }  print C();             *)
SrcInit(choice) ==
    Parsed(IF choice = 1
           THEN <<Cls("C", None,
                      <<Fun(1, "init", <<"a">>,
                            <<Do(SetExpr(This, Ident("a"), V("a")))>>)>>),
                  Var("c", Call1(V("C"), N(1))),
                  PrintStmt(Get(V("c"), "a"))>>
           ELSE <<Cls("C", None,
                      <<Fun(1, "init", <<>>, <<PrintStmt(S("init")), RetNone>>)>>),
                  PrintStmt(Call0(V("C")))>>)

(* class A { m() { print "A.m"; } }  class B < A {}  B().m();              *)
SrcInherit ==
    Parsed(<<Cls("A", None, <<Fun(1, "m", <<>>, <<PrintStmt(S("A.m"))>>)>>),
             Cls("B", Some(V("A")), <<>>),
             Do(Call0(Get(Call0(V("B")), "m")))>>)

(* class C { m() { return this; }                                          *)
(*           n() { fun inner() { return this; } return inner(); } }        *)
(* var c = C(); c.name = "c"; var m = c.m; print m().name; print c.n().name; *)
SrcThis ==
    Parsed(<<Cls("C", None,
                 <<Fun(1, "m", <<>>, <<Ret(This)>>),
                   Fun(2, "n", <<>>,
                       <<Fun(3, "inner", <<>>, <<Ret(This)>>),
                         Ret(Call0(V("inner")))>>)>>),
             Var("c", Call0(V("C"))),
             Do(SetExpr(V("c"), Ident("name"), S("c"))),
             Var("m", Get(V("c"), "m")),
             PrintStmt(Get(Call0(V("m")), "name")),
             PrintStmt(Get(Call0(Get(V("c"), "n")), "name"))>>)

(* var i = 0; while (i < 2) i = i + 1;                                    *)
(* print -(i); print !(nil or false); print 1 and 2; print clock(); "x"(); *)
SrcMisc ==
    Parsed(<<Var("i", N(0)),
             WhileStmt(Bin(V("i"), "Less", "<", N(2)), Set("i", Plus(V("i"), N(1)))),
             PrintStmt(UnaryExpr(Token("Minus", "-", 1), GroupingExpr(V("i")))),
             PrintStmt(UnaryExpr(Token("Bang", "!", 1),
                           GroupingExpr(LogicalExpr(LiteralExpr(Nil),
                                                    Token("Or", "or", 1),
                                                    B(FALSE))))),
             PrintStmt(LogicalExpr(N(1), Token("And", "and", 1), N(2))),
             PrintStmt(Call0(V("clock"))),
             Do(Call0(S("x")))>>)

(* 1: print 1; return 3;      2: print 1; { var a = 1; var a = 2; }        *)
SrcUnresolvable(choice) ==
    Parsed(<<PrintStmt(N(1))>>
           \o IF choice = 1 THEN <<Ret(N(3))>>
              ELSE <<BlockStmt(<<Var("a", N(1)), Var("a", N(2))>>)>>)

(* a text the scanner rejects:  print 1; @                                 *)
SrcUnscannable ==
    [scan |-> Err([line |-> 1, loc |-> "", exit |-> 65,
                   message |-> "Unexpected character."])]

(* a text the parser rejects:  print 1; print ;                            *)
SrcUnparsable ==
    [scan |-> Ok("tokens"),
     parse |-> Err(<<parse_error(Token("Semicolon", ";", 1),
                                 "Expect expression.")>>)]

(* class C { f() { return "method"; } g() { return "g"; } }                *)
(* var i = C(); var j = C(); i.f = "field";                                *)
(* print i.f; print j.f(); print i.g();                                    *)
SrcFields ==
    Parsed(<<Cls("C", None,
                 <<Fun(1, "f", <<>>, <<Ret(S("method"))>>),
                   Fun(2, "g", <<>>, <<Ret(S("g"))>>)>>),
             Var("i", Call0(V("C"))),
             Var("j", Call0(V("C"))),
             Do(SetExpr(V("i"), Ident("f"), S("field"))),
             PrintStmt(Get(V("i"), "f")),
             PrintStmt(Call0(Get(V("j"), "f"))),
             PrintStmt(Call0(Get(V("i"), "g")))>>)

(* fun make() { fun inner() {} return inner; }                             *)
(* var a = make(); var b = make(); var c = a;                              *)
(* class C { m() {} }  var i = C(); var j = C(); var k = i;                *)
(* print a == c; print i == k; print i == j; print C == C; print a == i;   *)
(* print a == b; print i.m == j.m;                                         *)
SrcEquality ==
    Parsed(<<Fun(1, "make", <<>>, <<Fun(2, "inner", <<>>, <<>>), Ret(V("inner"))>>),
             Var("a", Call0(V("make"))),
             Var("b", Call0(V("make"))),
             Var("c", V("a")),
             Cls("C", None, <<Fun(3, "m", <<>>, <<>>)>>),
             Var("i", Call0(V("C"))),
             Var("j", Call0(V("C"))),
             Var("k", V("i")),
             PrintStmt(Bin(V("a"), "EqualEqual", "==", V("c"))),
             PrintStmt(Bin(V("i"), "EqualEqual", "==", V("k"))),
             PrintStmt(Bin(V("i"), "EqualEqual", "==", V("j"))),
             PrintStmt(Bin(V("C"), "EqualEqual", "==", V("C"))),
             PrintStmt(Bin(V("a"), "EqualEqual", "==", V("i"))),
             PrintStmt(Bin(V("a"), "EqualEqual", "==", V("b"))),
             PrintStmt(Bin(Get(V("i"), "m"), "EqualEqual", "==", Get(V("j"), "m")))>>)

(* fun f() {}  class C {}  var v = <value>;                                *)
(* print !v; if (v) print "then"; else print "else";                       *)
(* print v and "and"; print v or "or"; while (v) { print "loop"; v = nil; } *)
(* with <value> one of nil, false, true, 0, "", clock, f, C, C()            *)
TruthyValue(choice) ==
    CASE choice = 1 -> LiteralExpr(Nil)
      [] choice = 2 -> B(FALSE)
      [] choice = 3 -> B(TRUE)
      [] choice = 4 -> N(0)
      [] choice = 5 -> S("")
      [] choice = 6 -> V("clock")
      [] choice = 7 -> V("f")
      [] choice = 8 -> V("C")
      [] choice = 9 -> Call0(V("C"))

SrcTruthy(choice) ==
    Parsed(<<Fun(1, "f", <<>>, <<>>),
             Cls("C", None, <<>>),
             Var("v", TruthyValue(choice)),
             PrintStmt(UnaryExpr(Token("Bang", "!", 1), V("v"))),
             IfStmt(V("v"), PrintStmt(S("then")), Some(PrintStmt(S("else")))),
             PrintStmt(LogicalExpr(V("v"), Token("And", "and", 1), S("and"))),
             PrintStmt(LogicalExpr(V("v"), Token("Or", "or", 1), S("or"))),
             WhileStmt(V("v"), BlockStmt(<<PrintStmt(S("loop")),
                                           Set("v", LiteralExpr(Nil))>>))>>)

(* fun p(x) { print x; return x; }  fun z() {}  followed by one of          *)
(* 1: print p(1) + p(2);        2: z(p(1), p(2));     3: p("c")(p(1), p(2)); *)
(* 4: clock(p(1));              5: print p(1) - p("b");                      *)
SrcOrder(choice) ==
    Parsed(<<Fun(1, "p", <<"x">>, <<PrintStmt(V("x")), Ret(V("x"))>>),
             Fun(2, "z", <<>>, <<>>),
             CASE choice = 1 -> PrintStmt(Plus(Call1(V("p"), N(1)), Call1(V("p"), N(2))))
               [] choice = 2 -> Do(CallExpr(V("z"), RightParen,
                                     <<Call1(V("p"), N(1)), Call1(V("p"), N(2))>>))
               [] choice = 3 -> Do(CallExpr(Call1(V("p"), S("c")), RightParen,
                                     <<Call1(V("p"), N(1)), Call1(V("p"), N(2))>>))
               [] choice = 4 -> Do(Call1(V("clock"), Call1(V("p"), N(1))))
               [] choice = 5 -> PrintStmt(Bin(Call1(V("p"), N(1)), "Minus", "-",
                                              Call1(V("p"), S("b"))))>>)

(* fun p(x) { print x; return x; }  followed by  print <left> <op> p("r");  *)
(* 1: p(nil) or    2: p(0) or    3: p(nil) and    4: p(0) and               *)
(* 5: p(false) or  6: p("") and                                             *)
SrcLogical(choice) ==
    Parsed(<<Fun(1, "p", <<"x">>, <<PrintStmt(V("x")), Ret(V("x"))>>),
             PrintStmt(LogicalExpr(
                 Call1(V("p"), CASE choice \in {1, 3} -> LiteralExpr(Nil)
                                 [] choice \in {2, 4} -> N(0)
                                 [] choice = 5 -> B(FALSE)
                                 [] choice = 6 -> S("")),
                 IF choice \in {1, 2, 5} THEN Token("Or", "or", 1)
                 ELSE Token("And", "and", 1),
                 Call1(V("p"), S("r"))))>>)

(* A source text given by its lexemes, all on line 1: the tokens that      *)
(* scan_tokens returns for them                                            *)
WordTypes ==
    [w \in {"(", ")", "{", "}", ",", ".", "-", "+", ";", "*", "/", "!", "!=", "=",
            "==", "<", "<=", ">", ">=", "and", "class", "else", "false", "for",
            "fun", "if", "nil", "or", "print", "return", "super", "this", "true",
            "var", "while"} |->
        CASE w = "(" -> "LeftParen" [] w = ")" -> "RightParen"
          [] w = "{" -> "LeftBrace" [] w = "}" -> "RightBrace"
          [] w = "," -> "Comma" [] w = "." -> "Dot" [] w = "-" -> "Minus"
          [] w = "+" -> "Plus" [] w = ";" -> "Semicolon" [] w = "*" -> "Star"
          [] w = "/" -> "Slash" [] w = "!" -> "Bang" [] w = "!=" -> "BangEqual"
          [] w = "=" -> "Equal" [] w = "==" -> "EqualEqual" [] w = "<" -> "Less"
          [] w = "<=" -> "LessEqual" [] w = ">" -> "Greater"
          [] w = ">=" -> "GreaterEqual" [] w = "and" -> "And"
          [] w = "class" -> "Class" [] w = "else" -> "Else" [] w = "false" -> "False"
          [] w = "for" -> "For" [] w = "fun" -> "Fun" [] w = "if" -> "If"
          [] w = "nil" -> "Nil" [] w = "or" -> "Or" [] w = "print" -> "Print"
          [] w = "return" -> "Return" [] w = "super" -> "Super"
          [] w = "this" -> "This" [] w = "true" -> "True" [] w = "var" -> "Var"
          [] w = "while" -> "While"]

Word(w) ==
    Token(IF w \in DOMAIN WordTypes THEN WordTypes[w]
          ELSE IF \E n \in 0..MaxLiteral : ToString(n) = w THEN "Number"
          ELSE IF \E v \in StringValues : "\"" \o v \o "\"" = w THEN "StringLiteral"
          ELSE "Identifier",
          w, 1)

Scanned(words) ==
    [scan |-> Ok([i \in DOMAIN words |-> Word(words[i])] \o <<Token("EOF", "", 1)>>)]

(* The loops.  One of                                                      *)
(*   fun f() { <before> for (<init>; <cond>; <inc>) <body> return 9; } print f(); *)
(*   fun f() { <before> { <init>; while (<cond>) { <body> <inc>; } } return 9; }  *)
(*   print f();                                                            *)
(* where <init> is absent (<before> is var i = 0;), or var i = 0, or i = 0 *)
(* (<before> is var i = 5;), <cond> is absent (true in the while form) or  *)
(* i < 2, <inc> is absent or i = i + 1, and <body> is                      *)
(* { if (i >= 2) return i; print i; } when there is an <inc>, else         *)
(* { if (i >= 2) return i; print i; i = i + 1; }; a block of the while     *)
(* form is left out when <init>, or <inc>, is absent.                      *)
LoopInit(choice) == choice % 3

LoopCond(choice) == (choice \div 3) % 2 = 1

LoopInc(choice) == choice \div 6 = 1

LoopBefore(choice) ==
    <<"fun", "f", "(", ")", "{">>
    \o CASE LoopInit(choice) = 0 -> <<"var", "i", "=", "0", ";">>
         [] LoopInit(choice) = 1 -> <<>>
         [] LoopInit(choice) = 2 -> <<"var", "i", "=", "5", ";">>

LoopInitWords(choice) ==
    CASE LoopInit(choice) = 0 -> <<>>
      [] LoopInit(choice) = 1 -> <<"var", "i", "=", "0", ";">>
      [] LoopInit(choice) = 2 -> <<"i", "=", "0", ";">>

LoopCondWords == <<"i", "<", "2">>

LoopIncWords == <<"i", "=", "i", "+", "1">>

LoopBody(choice) ==
    <<"{", "if", "(", "i", ">=", "2", ")", "return", "i", ";", "print", "i", ";">>
    \o (IF LoopInc(choice) THEN <<>> ELSE LoopIncWords \o <<";">>)
    \o <<"}">>

LoopAfter == <<"return", "9", ";", "}", "print", "f", "(", ")", ";">>

SrcFor(choice) ==
    Scanned(LoopBefore(choice)
            \o <<"for", "(">>
            \o (IF LoopInit(choice) = 0 THEN <<";">> ELSE LoopInitWords(choice))
            \o (IF LoopCond(choice) THEN LoopCondWords ELSE <<>>) \o <<";">>
            \o (IF LoopInc(choice) THEN LoopIncWords ELSE <<>>) \o <<")">>
            \o LoopBody(choice)
            \o LoopAfter)

SrcWhile(choice) ==
    Scanned(LoopBefore(choice)
            \o (IF LoopInit(choice) = 0 THEN <<>> ELSE <<"{">> \o LoopInitWords(choice))
            \o <<"while", "(">>
            \o (IF LoopCond(choice) THEN LoopCondWords ELSE <<"true">>) \o <<")">>
            \o (IF LoopInc(choice)
                THEN <<"{">> \o LoopBody(choice) \o LoopIncWords \o <<";", "}">>
                ELSE LoopBody(choice))
            \o (IF LoopInit(choice) = 0 THEN <<>> ELSE <<"}">>)
            \o LoopAfter)

(* the name a on line 2 *)
A2 == Token("Identifier", "a", 2)

(* print 1; followed by one of (the second declaration of a is on line 2)  *)
(* 1: { var a = 1; var a = 2; }            2: fun f(a) { var a = 1; }      *)
(* 3: fun f(a, a) {}                       4: { var a = 1; fun a() {} }    *)
(* 5: { var a = 1; class a {} }            6: class C { m(a) { var a; } }  *)
(* 7: { fun a() {} var a; }                                                *)
(* or, with no print 1; before it, one of                                  *)
(* 8: var a = 1; var a = 2; print a;       9: fun a() {} var a = 3; print a; *)
(* 10: { var a = 1; { var a = 2; print a; } }                              *)
SrcRedeclare(choice) ==
    Parsed(CASE choice = 1 ->
                  <<PrintStmt(N(1)),
                    BlockStmt(<<Var("a", N(1)), VarStmt(A2, Some(N(2)))>>)>>
             [] choice = 2 ->
                  <<PrintStmt(N(1)),
                    Fun(1, "f", <<"a">>, <<VarStmt(A2, Some(N(1)))>>)>>
             [] choice = 3 ->
                  <<PrintStmt(N(1)),
                    FunctionStmt(1, Ident("f"), <<Ident("a"), A2>>, <<>>)>>
             [] choice = 4 ->
                  <<PrintStmt(N(1)),
                    BlockStmt(<<Var("a", N(1)), FunctionStmt(1, A2, <<>>, <<>>)>>)>>
             [] choice = 5 ->
                  <<PrintStmt(N(1)),
                    BlockStmt(<<Var("a", N(1)), ClassStmt(A2, None, <<>>)>>)>>
             [] choice = 6 ->
                  <<PrintStmt(N(1)),
                    Cls("C", None, <<Fun(1, "m", <<"a">>, <<VarStmt(A2, None)>>)>>)>>
             [] choice = 7 ->
                  <<PrintStmt(N(1)),
                    BlockStmt(<<Fun(1, "a", <<>>, <<>>), VarStmt(A2, None)>>)>>
             [] choice = 8 ->
                  <<Var("a", N(1)), VarStmt(A2, Some(N(2))), PrintStmt(V("a"))>>
             [] choice = 9 ->
                  <<Fun(1, "a", <<>>, <<>>), VarStmt(A2, Some(N(3))), PrintStmt(V("a"))>>
             [] choice = 10 ->
                  <<BlockStmt(<<Var("a", N(1)),
                                BlockStmt(<<VarStmt(A2, Some(N(2))),
                                            PrintStmt(V("a"))>>)>>)>>)

(* print 1; followed by one of (the a read by the initializer is on line 2) *)
(* 1: { var a = a; }                     2: var a = "o"; { var a = a; }     *)
(* 3: { var a = 1; { var a = a + 1; } }  4: fun f() { var a = a; }          *)
(* or, with no print 1; before it, one of                                   *)
(* 5: var a = 1; var a = a + 1; print a;                                    *)
(* 6: { var a = 1; { var b = a; print b; } }                                *)
SrcInitializer(choice) ==
    Parsed(CASE choice = 1 ->
                  <<PrintStmt(N(1)), BlockStmt(<<Var("a", VariableExpr(A2))>>)>>
             [] choice = 2 ->
                  <<PrintStmt(N(1)), Var("a", S("o")),
                    BlockStmt(<<Var("a", VariableExpr(A2))>>)>>
             [] choice = 3 ->
                  <<PrintStmt(N(1)),
                    BlockStmt(<<Var("a", N(1)),
                                BlockStmt(<<Var("a", Plus(VariableExpr(A2), N(1)))>>)>>)>>
             [] choice = 4 ->
                  <<PrintStmt(N(1)),
                    Fun(1, "f", <<>>, <<Var("a", VariableExpr(A2))>>)>>
             [] choice = 5 ->
                  <<Var("a", N(1)), Var("a", Plus(VariableExpr(A2), N(1))),
                    PrintStmt(V("a"))>>
             [] choice = 6 ->
                  <<BlockStmt(<<Var("a", N(1)),
                                BlockStmt(<<Var("b", VariableExpr(A2)),
                                            PrintStmt(V("b"))>>)>>)>>)

(* return on line 2 *)
Return2 == Token("Return", "return", 2)

(* print 1; followed by one of (the return outside a function is on line 2) *)
(* 1: return 3;                         2: { return; }                      *)
(* 3: if (true) return 1;               4: while (true) { return; }         *)
(* 5: fun f() { return 1; } return f(); 6: class C { m() { return; } } return; *)
(* or, with no print 1; before it, one of                                   *)
(* 7: fun f() { if (true) { while (true) { return 7; } } } print f();       *)
(* 8: fun f() { fun g() { return 1; } return g() + 1; } print f();          *)
SrcTopLevel(choice) ==
    Parsed(CASE choice = 1 -> <<PrintStmt(N(1)), ReturnStmt(Return2, Some(N(3)))>>
             [] choice = 2 ->
                  <<PrintStmt(N(1)), BlockStmt(<<ReturnStmt(Return2, None)>>)>>
             [] choice = 3 ->
                  <<PrintStmt(N(1)),
                    IfStmt(B(TRUE), ReturnStmt(Return2, Some(N(1))), None)>>
             [] choice = 4 ->
                  <<PrintStmt(N(1)),
                    WhileStmt(B(TRUE), BlockStmt(<<ReturnStmt(Return2, None)>>))>>
             [] choice = 5 ->
                  <<PrintStmt(N(1)), Fun(1, "f", <<>>, <<Ret(N(1))>>),
                    ReturnStmt(Return2, Some(Call0(V("f"))))>>
             [] choice = 6 ->
                  <<PrintStmt(N(1)),
                    Cls("C", None, <<Fun(1, "m", <<>>, <<RetNone>>)>>),
                    ReturnStmt(Return2, None)>>
             [] choice = 7 ->
                  <<Fun(1, "f", <<>>,
                        <<IfStmt(B(TRUE),
                                 BlockStmt(<<WhileStmt(B(TRUE),
                                                 BlockStmt(<<Ret(N(7))>>))>>),
                                 None)>>),
                    PrintStmt(Call0(V("f")))>>
             [] choice = 8 ->
                  <<Fun(1, "f", <<>>,
                        <<Fun(2, "g", <<>>, <<Ret(N(1))>>),
                          Ret(Plus(Call0(V("g")), N(1)))>>),
                    PrintStmt(Call0(V("f")))>>)

(* 1: { var a = 1;                2: return 1;                              *)
(*      var a = a; }                 { var a =                              *)
(*                                     a; }                                 *)
(*                                   fun f() { { print this; } }   (line 3) *)
(* 3: class C { init() {                                                    *)
(*      return super.m; } }                                                 *)
SrcErrors(choice) ==
    Parsed(CASE choice = 1 ->
                  <<BlockStmt(<<Var("a", N(1)), VarStmt(A2, Some(VariableExpr(A2)))>>)>>
             [] choice = 2 ->
                  <<Ret(N(1)),
                    BlockStmt(<<Var("a", VariableExpr(A2))>>),
                    Fun(1, "f", <<>>,
                        <<BlockStmt(<<PrintStmt(ThisExpr(Token("This", "this", 3)))>>)>>)>>
             [] choice = 3 ->
                  <<Cls("C", None,
                        <<Fun(1, "init", <<>>,
                              <<ReturnStmt(Return2,
                                    Some(SuperExpr(Token("Super", "super", 2),
                                                   Ident("m"))))>>)>>)>>)

(* print 1; followed by one of                                              *)
(* 1: fun f() { { print 2; nil(); print 3; } return 4; }                    *)
(*    while (true) { print f(); print 5; }  print 6;                        *)
(* 2: print -"a"; print 2;                                                  *)
(* 3: { print 2; var a = 1; a = b; print 3; }  print 4;                     *)
SrcHalt(choice) ==
    Parsed(<<PrintStmt(N(1))>> \o
           CASE choice = 1 ->
                  <<Fun(1, "f", <<>>,
                        <<BlockStmt(<<PrintStmt(N(2)), Do(Call0(LiteralExpr(Nil))),
                                      PrintStmt(N(3))>>),
                          Ret(N(4))>>),
                    WhileStmt(B(TRUE),
                              BlockStmt(<<PrintStmt(Call0(V("f"))), PrintStmt(N(5))>>)),
                    PrintStmt(N(6))>>
             [] choice = 2 ->
                  <<PrintStmt(UnaryExpr(Token("Minus", "-", 1), S("a"))),
                    PrintStmt(N(2))>>
             [] choice = 3 ->
                  <<BlockStmt(<<PrintStmt(N(2)), Var("a", N(1)), Set("a", V("b")),
                                PrintStmt(N(3))>>),
                    PrintStmt(N(4))>>)

(* token lists of sources of several lines: text[n] holds the words of line n *)
LineTokens(words, line) ==
    [i \in DOMAIN words |-> [Word(words[i]) EXCEPT !.line = line]]

RECURSIVE JoinLines(_, _)
JoinLines(text, n) ==
    IF n = 0 THEN <<>> ELSE JoinLines(text, n - 1) \o LineTokens(text[n], n)

Lined(text) ==
    [scan |-> Ok(JoinLines(text, Len(text)) \o <<Token("EOF", "", Len(text))>>)]

(* 1: var;           2: var;            3: a b           4: print 1 print 2;  *)
(*    var;              print 1;           print (;         print );          *)
(*                                         var c;                             *)
(* 5: { var; print 1; }                 6: var           7: print 1;          *)
SrcRecover(choice) ==
    Lined(CASE choice = 1 -> <<<<"var", ";">>, <<"var", ";">>>>
            [] choice = 2 -> <<<<"var", ";">>, <<"print", "1", ";">>>>
            [] choice = 3 -> <<<<"a", "b">>, <<"print", "(", ";">>, <<"var", "c", ";">>>>
            [] choice = 4 -> <<<<"print", "1", "print", "2", ";">>, <<"print", ")", ";">>>>
            [] choice = 5 -> <<<<"{", "var", ";", "print", "1", ";", "}">>>>
            [] choice = 6 -> <<<<"var">>>>
            [] choice = 7 -> <<<<"print", "1", ";">>>>)

(* 1: var v; var w; v = w = 3; print v;      2: o.f = 1;                     *)
(* 3: 1 = 2 print 3;                         4: (v) = 1;                     *)
SrcAssign(choice) ==
    Scanned(CASE choice = 1 -> <<"var", "v", ";", "var", "w", ";",
                                 "v", "=", "w", "=", "3", ";", "print", "v", ";">>
              [] choice = 2 -> <<"o", ".", "f", "=", "1", ";">>
              [] choice = 3 -> <<"1", "=", "2", "print", "3", ";">>
              [] choice = 4 -> <<"(", "v", ")", "=", "1", ";">>)

(* source texts, byte by byte                                               *)
(* 1: 1.;      2: 1.      3: print "a";      4: "a      5: a @               *)
(*                           // c                                           *)
(*                           print 6/3;                                     *)
(* 6: var a = 1;                                                            *)
(*    print a >= 1;                                                         *)
SrcText(choice) ==
    [text |->
        CASE choice = 1 -> <<"1", ".", ";">>
          [] choice = 2 -> <<"1", ".">>
          [] choice = 3 -> <<"p", "r", "i", "n", "t", " ", "\"", "a", "\"", ";", "\n",
                           "/", "/", " ", "c", "\n", "p", "r", "i", "n", "t", " ",
                           "6", "/", "3", ";">>
          [] choice = 4 -> <<"\"", "a">>
          [] choice = 5 -> <<"a", " ", "@">>
          [] choice = 6 -> <<"v", "a", "r", " ", "a", " ", "=", " ", "1", ";", "\n",
                           "p", "r", "i", "n", "t", " ", "a", " ", ">", "=", " ", "1",
                           ";">>]

(* lines typed at the prompt                                                *)
(* 1: var a = 1; fun f() { { a = 2; var b = 3; nil(); } } f();              *)
(* 2: print a;          3: a = a + 1; print a;          4: print f;          *)
SrcRepl(choice) ==
    Scanned(CASE choice = 1 -> <<"var", "a", "=", "1", ";",
                                 "fun", "f", "(", ")", "{",
                                 "{", "a", "=", "2", ";", "var", "b", "=", "3", ";",
                                 "nil", "(", ")", ";", "}", "}",
                                 "f", "(", ")", ";">>
              [] choice = 2 -> <<"print", "a", ";">>
              [] choice = 3 -> <<"a", "=", "a", "+", "1", ";", "print", "a", ";">>
              [] choice = 4 -> <<"print", "f", ";">>)

(* 1: var a = 1; { var b = 2; { var c = 3; a = 4; b = 5; print a; print b; } *)
(*    print b; } print a;                                                   *)
(* 2: var a = 1; { var b = 2; x = 3; print b; } print a;                    *)
SrcAssignment(choice) ==
    Scanned(CASE choice = 1 -> <<"var", "a", "=", "1", ";",
                                 "{", "var", "b", "=", "2", ";",
                                 "{", "var", "c", "=", "3", ";",
                                 "a", "=", "4", ";", "b", "=", "5", ";",
                                 "print", "a", ";", "print", "b", ";", "}",
                                 "print", "b", ";", "}", "print", "a", ";">>
              [] choice = 2 -> <<"var", "a", "=", "1", ";",
                                 "{", "var", "b", "=", "2", ";",
                                 "x", "=", "3", ";", "print", "b", ";", "}",
                                 "print", "a", ";">>)

(* 1: fun f(n) { print n; }      2: print 1; clock(      3: fun f(n) { print n; } *)
(*    f(1,                          3); print 2;            { var a = 1;          *)
(*    2);                                                     f(                  *)
(*                                                            ); }                *)
SrcArity(choice) ==
    Lined(CASE choice = 1 -> <<<<"fun", "f", "(", "n", ")", "{", "print", "n", ";", "}">>,
                               <<"f", "(", "1", ",">>,
                               <<"2", ")", ";">>>>
            [] choice = 2 -> <<<<"print", "1", ";", "clock", "(">>,
                               <<"3", ")", ";", "print", "2", ";">>>>
            [] choice = 3 -> <<<<"fun", "f", "(", "n", ")", "{", "print", "n", ";", "}">>,
                               <<"{", "var", "a", "=", "1", ";">>,
                               <<"f", "(">>,
                               <<")", ";", "}">>>>)

Family(name, choices) == {[name |-> name, choice |-> c] : c \in choices}

Sources ==
    Family("blocks", {0}) \cup Family("counter", {0}) \cup Family("scoping", 1..3)
    \cup Family("subclass", 1..4) \cup Family("return", {0})
    \cup Family("recursion", {0}) \cup Family("error", {0})
    \cup Family("shared", 0..8) \cup Family("init", 1..2)
    \cup Family("inherit", {0}) \cup Family("this", {0}) \cup Family("misc", {0})
    \cup Family("unresolvable", 1..2) \cup Family("unscannable", {0})
    \cup Family("unparsable", {0}) \cup Family("fields", {0})
    \cup Family("equality", {0}) \cup Family("truthy", 1..9)
    \cup Family("order", 1..5) \cup Family("logical", 1..6)
    \cup Family("for", 0..11) \cup Family("while", 0..11)
    \cup Family("redeclare", 1..10) \cup Family("initializer", 1..6)
    \cup Family("toplevel", 1..8) \cup Family("errors", 1..3)
    \cup Family("halt", 1..3) \cup Family("recover", 1..7)
    \cup Family("assign", 1..4) \cup Family("text", 1..6)
    \cup Family("assignment", 1..2) \cup Family("arity", 1..3)

(* the lines typed at the prompt *)
ReplLines ==
    Family("blocks", {0}) \cup Family("error", {0}) \cup Family("unresolvable", 1..2)
    \cup Family("unparsable", {0}) \cup Family("repl", 1..4)

SourceOf(s) ==
    CASE s.name = "blocks" -> SrcBlocks
      [] s.name = "counter" -> SrcCounter
      [] s.name = "scoping" -> SrcScoping(s.choice)
      [] s.name = "subclass" -> SrcSubclass(s.choice)
      [] s.name = "return" -> SrcReturn
      [] s.name = "recursion" -> SrcRecursion
      [] s.name = "error" -> SrcError
      [] s.name = "shared" -> SrcShared(s.choice)
      [] s.name = "init" -> SrcInit(s.choice)
      [] s.name = "inherit" -> SrcInherit
      [] s.name = "this" -> SrcThis
      [] s.name = "misc" -> SrcMisc
      [] s.name = "unresolvable" -> SrcUnresolvable(s.choice)
      [] s.name = "unscannable" -> SrcUnscannable
      [] s.name = "unparsable" -> SrcUnparsable
      [] s.name = "fields" -> SrcFields
      [] s.name = "equality" -> SrcEquality
      [] s.name = "truthy" -> SrcTruthy(s.choice)
      [] s.name = "order" -> SrcOrder(s.choice)
      [] s.name = "logical" -> SrcLogical(s.choice)
      [] s.name = "for" -> SrcFor(s.choice)
      [] s.name = "while" -> SrcWhile(s.choice)
      [] s.name = "redeclare" -> SrcRedeclare(s.choice)
      [] s.name = "initializer" -> SrcInitializer(s.choice)
      [] s.name = "toplevel" -> SrcTopLevel(s.choice)
      [] s.name = "errors" -> SrcErrors(s.choice)
      [] s.name = "halt" -> SrcHalt(s.choice)
      [] s.name = "recover" -> SrcRecover(s.choice)
      [] s.name = "assign" -> SrcAssign(s.choice)
      [] s.name = "text" -> SrcText(s.choice)
      [] s.name = "repl" -> SrcRepl(s.choice)
      [] s.name = "assignment" -> SrcAssignment(s.choice)
      [] s.name = "arity" -> SrcArity(s.choice)
      [] s.name = "scan" -> [text |-> s.choice]
      [] s.name = "parse" -> Scanned(s.choice)

-----------------------------------------------------------------------------
(* error.rs: Display for LoxError and From<Vec<LoxError>> *)

LoxError_to_string(e) ==
    "[line " \o ToString(e.line) \o "] Error" \o e.loc \o ": " \o e.message

RECURSIVE JoinRest(_)
JoinRest(errs) ==
    IF Len(errs) = 0 THEN ""
    ELSE "\n" \o LoxError_to_string(Head(errs)) \o JoinRest(Tail(errs))

LoxError_from(errs) ==
    IF Len(errs) <= 1 THEN errs[1]
    ELSE [errs[1] EXCEPT !.message = @ \o JoinRest(Tail(errs))]

-----------------------------------------------------------------------------
(* The entry points: execute_for_tests (entry = "test"), run_file          *)
(* (entry = "file") and run_prompt's execute_and_leak_source ("repl").     *)

machine == <<printed, time, heap, environment, ctrl, kont>>

(* the tokens of a source: scanned from its text where the text is given *)
Scanning(source) ==
    IF "text" \in DOMAIN source THEN scan_tokens(source.text) ELSE source.scan

Scan ==
    /\ stage = "scan"
    /\ LET tokens == Scanning(SourceOf(src))
       IN IF tokens.tag = "Ok" /\ entry # "scanner"
          THEN stage' = "parse" /\ result' = result
          ELSE stage' = "done" /\ result' = tokens
    /\ UNCHANGED <<entry, lines, src, prog, machine>>

(* parser::parse of the tokens; a text with class syntax, which this      *)
(* parser does not have, is given by its syntax tree                       *)
Parsing(source) ==
    IF "parse" \in DOMAIN source THEN source.parse ELSE parse(Scanning(source).v)

Parse ==
    /\ stage = "parse"
    /\ LET parsed == Parsing(SourceOf(src))
       IN IF parsed.tag = "Ok" /\ entry # "parser"
          THEN /\ prog' = parsed.v
               /\ stage' = IF entry = "test" THEN "resolve" ELSE "run"
               /\ result' = result
          ELSE /\ prog' = prog
               /\ stage' = "done"
               /\ result' = IF parsed.tag = "Err" /\ entry # "parser"
                             THEN Err(LoxError_from(parsed.e))
                             ELSE parsed
    /\ UNCHANGED <<entry, lines, src, machine>>

Resolve ==
    /\ stage = "resolve"
    /\ LET resolved == resolve(prog)
       IN IF resolved.tag = "Ok"
          THEN prog' = resolved.v /\ stage' = "run" /\ result' = result
          ELSE prog' = prog /\ stage' = "done"
               /\ result' = Err(LoxError_from(resolved.e))
    /\ UNCHANGED <<entry, lines, src, machine>>

ExecuteProgram ==
    /\ stage = "run"
    /\ stage' = "execute"
    /\ kont' = <<[k |-> "Program"], StmtsFrame(prog, environment, environment)>>
    /\ ctrl' = Done
    /\ UNCHANGED <<entry, lines, src, prog, result, printed, time, heap, environment>>

(* execute_program's match on the result of execute_stmts *)
ProgramResult(c) ==
    CASE c.m = "ok" -> Ok("unit")
      [] c.m = "unw" /\ c.u.t = "Err" -> Err(c.u.e)
      [] c.m = "unw" /\ c.u.t = "Return" ->
            Err(runtime_error(c.u.keyword,
                    "[resolver bug] Can't return from top-level code."))

FinishProgram ==
    /\ Running /\ ctrl.m \in {"ok", "unw"} /\ Top.k = "Program"
    /\ result' = ProgramResult(ctrl)
    /\ stage' = "done"
    /\ kont' = <<>>
    /\ ctrl' = Idle
    /\ UNCHANGED <<entry, lines, src, prog, printed, time, heap, environment>>

(* run_prompt: the next turn of the loop prints the error of the last     *)
(* line, if any, and runs the line it reads in the same interpreter       *)
(* ReadLine as it would be if every line got an interpreter of its own (C26) *)
ReadLineNewInterpreter ==
    /\ entry = "repl" /\ stage = "done" /\ lines < MaxLines
    /\ result.tag # "Panic"
    /\ lines' = lines + 1
    /\ src' \in ReplLines
    /\ stage' = "scan"
    /\ result' = None
    /\ printed' = IF result.tag = "Err"
                  THEN Append(printed, LoxError_to_string(result.e))
                  ELSE printed
    /\ envs' = <<Environment_define(Environment_new, "clock",
                                    BuiltinFunction("clock", 0))>>
    /\ classes' = <<>>
    /\ instances' = <<>>
    /\ environment' = globals
    /\ UNCHANGED <<entry, prog, time, ctrl, kont>>

ReadLine ==
    /\ entry = "repl" /\ stage = "done" /\ lines < MaxLines
    /\ result.tag # "Panic"
    /\ lines' = lines + 1
    /\ src' \in ReplLines
    /\ stage' = "scan"
    /\ result' = None
    /\ printed' = IF result.tag = "Err"
                  THEN Append(printed, LoxError_to_string(result.e))
                  ELSE printed
    /\ UNCHANGED <<entry, prog, time, heap, environment, ctrl, kont>>

-----------------------------------------------------------------------------

Interpreter_new ==
    /\ envs = <<Environment_define(Environment_new, "clock",
                                   BuiltinFunction("clock", 0))>>
    /\ classes = <<>>
    /\ instances = <<>>
    /\ environment = globals
    /\ printed = <<>>
    /\ time = 0
    /\ ctrl = Idle
    /\ kont = <<>>

Init ==
    /\ entry = "test"
    /\ lines = 1
    /\ src \in Sources
    /\ stage = "scan"
    /\ prog = <<>>
    /\ result = None
    /\ Interpreter_new

Evaluate ==
    \/ EvalAssign \/ ContAssign \/ EvalBinary \/ ContBinaryLeft \/ ContBinaryRight
    \/ EvalCall \/ ContCallCallee \/ ContCallArgument \/ CallBuiltin \/ CallFunction
    \/ ContCallFunction \/ CallClass \/ CallNotCallable \/ EvalGet \/ ContGet
    \/ EvalGrouping \/ EvalLiteral \/ EvalLogical \/ ContLogical \/ EvalSet
    \/ ContSetObject \/ ContSetValue \/ EvalThis \/ EvalUnary \/ ContUnary
    \/ EvalVariable

Execute ==
    \/ StmtsNext \/ UnwindStmts \/ UnwindFrame \/ ExecBlock \/ ExecClass \/ ExecExpr
    \/ ContExpr \/ ExecFunction \/ ExecIf \/ ContIf \/ ExecPrint \/ ContPrint
    \/ ExecReturn \/ ContReturn \/ ExecVar \/ ContVar \/ ExecWhile \/ ContWhileCond
    \/ ContWhileBody

Next ==
    \/ Scan \/ Parse \/ Resolve \/ ExecuteProgram \/ FinishProgram
    \/ Evaluate \/ Execute

Spec == Init /\ [][Next]_vars

(* main.rs: run_file on any source text, or run_prompt on its first line *)
InitMain ==
    /\ \/ entry = "file" /\ src \in Sources
       \/ entry = "repl" /\ src \in ReplLines
    /\ lines = 1
    /\ stage = "scan"
    /\ prog = <<>>
    /\ result = None
    /\ Interpreter_new

NextMain ==
    \/ ReadLine \/ Scan \/ Parse \/ ExecuteProgram \/ FinishProgram
    \/ Evaluate \/ Execute

SpecMain == InitMain /\ [][NextMain]_vars

(* scan_tokens called on its own, as test_scanner does, on every text of up *)
(* to MaxText bytes of Alphabet                                             *)
MaxText == 3

Alphabet == {"1", ".", "a", "\"", "\n", "/", "=", "@"}

Texts == UNION {[1..n -> Alphabet] : n \in 0..MaxText}

InitScan ==
    /\ entry = "scanner"
    /\ lines = 1
    /\ src \in Family("scan", Texts)
    /\ stage = "scan"
    /\ prog = <<>>
    /\ result = None
    /\ Interpreter_new

NextScan == Scan

SpecScan == InitScan /\ [][NextScan]_vars

(* parse called on its own, as the tests of parser.rs do, on every list of *)
(* up to MaxTokens of the words of Vocabulary, closed by EOF                *)
MaxTokens == 3

Vocabulary == {"var", "a", "=", ";", "1", "{", "}", "print"}

TokenLists == UNION {[1..n -> Vocabulary] : n \in 0..MaxTokens}

InitParse ==
    /\ entry = "parser"
    /\ lines = 1
    /\ src \in Family("parse", TokenLists)
    /\ stage = "scan"
    /\ prog = <<>>
    /\ result = None
    /\ Interpreter_new

NextParse == Scan \/ Parse

SpecParse == InitParse /\ [][NextParse]_vars

-----------------------------------------------------------------------------
(* Properties.  Unless said otherwise they are stated for execute_for_tests *)
(* (Spec); those about main.rs are stated for SpecMain.                     *)

Finished(name, choice) ==
    stage = "done" /\ src = [name |-> name, choice |-> choice]

(* the cell k hops up the enclosing chain of cell e, if the chain is that long *)
RECURSIVE Ancestor(_, _, _)
Ancestor(h, e, k) ==
    IF k = 0 THEN Some(e)
    ELSE IF h[e].enclosing.some THEN Ancestor(h, h[e].enclosing.v, k - 1)
    ELSE None

(* the Variable, This or Assign node whose lookup the next step performs *)
LookupNow ==
    IF Evaluating("Variable") \/ Evaluating("This") THEN Some(ctrl.e)
    ELSE IF Returned("Assign") THEN Some(Top.node)
    ELSE None

NameOf(node) == IF node.t = "This" THEN node.keyword ELSE node.name

(* C1: whenever the interpreter looks up a node the resolver annotated     *)
(* with Some(k), the environment exactly k hops up from the current one    *)
(* exists and holds the name, so get_at / assign_at succeed on the         *)
(* resolver's binding; this includes the bodies of methods of a class      *)
(* that has a superclass.                                                  *)
C1_ResolvedDepthFindsBinding ==
    (LookupNow.some /\ LookupNow.v.resolved_depth.some) =>
        LET a == Ancestor(envs, environment, LookupNow.v.resolved_depth.v)
        IN /\ a.some
           /\ ContainsKey(envs[a.v].values, NameOf(LookupNow.v).lexeme)

(* C2: an entry point starts executing a program only after scanning,      *)
(* parsing and resolving it have all succeeded.                            *)
C2_ExecutesOnlyResolvedPrograms ==
    stage \in {"run", "execute"} =>
        /\ Scanning(SourceOf(src)).tag = "Ok"
        /\ Parsing(SourceOf(src)).tag = "Ok"
        /\ resolve(Parsing(SourceOf(src)).v).tag = "Ok"

ScopingExpected(choice) ==
    IF choice = 3 THEN <<"global", "set">> ELSE <<"global", "global">>

(* C3: a function declaration stores a function whose closure is the       *)
(* environment current at the declaration, so a body resolves its free     *)
(* variables there: the scoping texts print global, global even after the  *)
(* block declares its own a, and see an assignment to the global a.        *)
C3_ClosureIsDeclarationEnvironment ==
    [][/\ Executing("Function") =>
              envs'[environment].values[ctrl.s.name.lexeme]
                  = Function(ctrl.s, environment)
       /\ \A c \in 1..3 :
              (stage' = "done" /\ src' = [name |-> "scoping", choice |-> c])
                  => printed' = ScopingExpected(c)]_vars

C3_Witness == Finished("scoping", 1) /\ printed = <<"global", "global">>

CallFrames == {j \in DOMAIN kont : kont[j].k = "CallFn"}

(* C4: every running invocation has an environment of its own whose        *)
(* parent is the function's closure and which holds the parameters; no two *)
(* running invocations share one, so the two counters count independently  *)
(* and a recursive call does not overwrite its caller's parameter.         *)
C4_FreshEnvironmentPerCall ==
    /\ \A j \in CallFrames :
          LET fr == kont[j]
              parameters == fr.f.declaration.parameters
          IN /\ envs[fr.environment].enclosing = Some(fr.f.closure)
             /\ fr.environment # fr.f.closure
             /\ \A p \in DOMAIN parameters :
                    ContainsKey(envs[fr.environment].values, parameters[p].lexeme)
    /\ \A i, j \in CallFrames :
          i # j => kont[i].environment # kont[j].environment
    /\ Finished("counter", 0) => printed = <<"1", "2", "1", "2">>
    /\ Finished("recursion", 0) => printed = <<"0", "1", "2">>

C4_Witness ==
    \E i, j \in CallFrames :
        /\ i < j
        /\ kont[i].f = kont[j].f
        /\ envs[kont[i].environment].values["n"]
               # envs[kont[j].environment].values["n"]

ReturnInFlight == Running /\ ctrl.m = "unw" /\ ctrl.u.t = "Return"

StmtsFrames == {j \in DOMAIN kont : kont[j].k = "Stmts"}

Innermost(frames) == CHOOSE j \in frames : \A i \in frames : i <= j

(* C5: the interpreter's environment is always the one of the innermost    *)
(* statement list still running, and the globals once none is: leaving a   *)
(* block normally, by a runtime error or by a return puts back the         *)
(* environment that was current when the block was entered.                *)
C5_EnvironmentRestored ==
    /\ (Running /\ StmtsFrames # {}) =>
           environment = kont[Innermost(StmtsFrames)].environment
    /\ (stage = "done" \/ (Running /\ StmtsFrames = {})) => environment = globals

C5_Witness ==
    /\ ReturnInFlight
    /\ Top.k = "WhileBody"
    /\ kont[Len(kont) - 1].k = "Stmts"
    /\ environment = kont[Len(kont) - 1].environment
    /\ Len(envs) > environment

(* what the shared texts print: the cell starts at 5, op 0 prints it, op k *)
(* stores k, and the last statement prints it                              *)
RECURSIVE SharedOutput(_, _)
SharedOutput(cell, ops) ==
    IF Len(ops) = 0 THEN <<ToString(cell)>>
    ELSE IF Head(ops) = 0 THEN <<ToString(cell)>> \o SharedOutput(cell, Tail(ops))
    ELSE SharedOutput(Head(ops), Tail(ops))

(* C6: an environment is one shared cell: a value stored through any       *)
(* holder (the block itself, the closure of s) is the value read through   *)
(* any other (the closure of g), for every order of the calls.             *)
C6_HoldersSeeLatestValue ==
    \A c \in 0..8 :
        Finished("shared", c) => printed = SharedOutput(5, <<c \div 3, c % 3>>)

C6_Witness ==
    /\ src = [name |-> "shared", choice |-> 3]
    /\ printed = <<"1">>

(* C7: a Return travelling up the stack is handed on unchanged by every    *)
(* frame (blocks, if, while) and is stopped only by the frame of a         *)
(* function invocation, whose call then evaluates to the returned value.   *)
C7_OnlyInvocationStopsReturn ==
    [][/\ (ReturnInFlight /\ ~ReturnInFlight') =>
              (Top.k = "CallFn" /\ ctrl' = Val(ctrl.u.value))
       /\ (ReturnInFlight /\ ReturnInFlight') => ctrl'.u = ctrl.u]_vars

C7_Witness ==
    /\ ReturnInFlight
    /\ Top.k = "CallFn"
    /\ ctrl.u.value = Number(1)
    /\ src.name = "return"

InitOf(c) == Class_find_method(classes, c, "init")

(* C8: calling a class that has an init method with as many arguments as   *)
(* init has parameters invokes init on the new instance.                   *)
C8_ClassCallInvokesInit ==
    [][(/\ Dispatching("Class")
        /\ InitOf(Top.callee.ref).some
        /\ Len(Top.arguments) = Len(InitOf(Top.callee.ref).v.declaration.parameters))
       => \E j \in DOMAIN kont' :
              /\ kont'[j].k = "CallFn"
              /\ kont'[j].f.declaration.id = InitOf(Top.callee.ref).v.declaration.id]_vars

(* the method a class declared at top level has by its declarations: its   *)
(* own, else the one of the class named in its superclass clause           *)
RECURSIVE DeclaredMethod(_, _, _)
DeclaredMethod(stmts, class_, method) ==
    LET ds == {i \in DOMAIN stmts :
                   stmts[i].t = "Class" /\ stmts[i].name.lexeme = class_}
    IN IF ds = {} THEN None
       ELSE LET d == stmts[CHOOSE i \in ds : TRUE]
                ms == {j \in DOMAIN d.methods : d.methods[j].name.lexeme = method}
            IN IF ms # {} THEN Some(d.methods[CHOOSE j \in ms : TRUE])
               ELSE IF d.superclass.some
                    THEN DeclaredMethod(stmts, d.superclass.v.name.lexeme, method)
                    ELSE None

(* C9: a property access that names no field finds the method along the    *)
(* superclass chain of the instance's class.                               *)
C9_MethodFoundAlongSuperclassChain ==
    [][(/\ Returned("Get")
        /\ ctrl.v.t = "Instance"
        /\ ~instance_get_field(instances, ctrl.v.ref, Top.node.name).some
        /\ DeclaredMethod(prog, classes[instances[ctrl.v.ref].class_].name.lexeme,
                          Top.node.name.lexeme).some)
       => /\ ctrl'.m = "val"
          /\ ctrl'.v.t = "Function"
          /\ ctrl'.v.declaration.id
                 = DeclaredMethod(prog,
                       classes[instances[ctrl.v.ref].class_].name.lexeme,
                       Top.node.name.lexeme).v.id]_vars

(* C10: a property access that finds a method yields a new function with   *)
(* the method's declaration whose closure is a new environment holding     *)
(* only this, bound to the instance, with the method's closure as parent;  *)
(* this then names the instance in the body and in functions nested in it. *)
C10_MethodBoundToInstance ==
    [][/\ (/\ Returned("Get")
           /\ ctrl.v.t = "Instance"
           /\ ~instance_get_field(instances, ctrl.v.ref, Top.node.name).some
           /\ instance_get_method(classes, instances, ctrl.v.ref, Top.node.name).some)
          => LET method == instance_get_method(classes, instances, ctrl.v.ref,
                                               Top.node.name).v
             IN /\ ctrl'.m = "val"
                /\ ctrl'.v.t = "Function"
                /\ ctrl'.v.declaration = method.declaration
                /\ ctrl'.v.closure = Len(envs) + 1
                /\ Len(envs') = Len(envs) + 1
                /\ \A e \in DOMAIN envs : envs'[e] = envs[e]
                /\ envs'[ctrl'.v.closure]
                       = [values |-> ("this" :> InstanceRef(ctrl.v.ref)),
                          enclosing |-> Some(method.closure)]
       /\ (stage' = "done" /\ src' = [name |-> "this", choice |-> 0])
              => printed' = <<"c", "c">>]_vars

C10_Witness ==
    /\ Running
    /\ ctrl.m = "val"
    /\ ctrl.v.t = "Function"
    /\ ContainsKey(envs[ctrl.v.closure].values, "this")
    /\ envs[ctrl.v.closure].values["this"].t = "Instance"

(* C11: a property access yields the instance's own field when it has one  *)
(* of that name, also when the class declares a method of that name, and   *)
(* creates nothing; a property set writes that one field of that one       *)
(* instance and leaves the classes and every other instance as they were.  *)
C11_FieldsFirstAndSetIsLocal ==
    [][/\ (/\ Returned("Get")
           /\ ctrl.v.t = "Instance"
           /\ ContainsKey(instances[ctrl.v.ref].fields, Top.node.name.lexeme))
          => /\ ctrl' = Val(instances[ctrl.v.ref].fields[Top.node.name.lexeme])
             /\ heap' = heap
       /\ Returned("SetValue")
          => /\ classes' = classes
             /\ DOMAIN instances' = DOMAIN instances
             /\ \A i \in DOMAIN instances :
                    /\ instances'[i].class_ = instances[i].class_
                    /\ i # Top.obj => instances'[i] = instances[i]
             /\ LET before == instances[Top.obj].fields
                    after == instances'[Top.obj].fields
                IN /\ DOMAIN after = DOMAIN before \cup {Top.node.name.lexeme}
                   /\ after[Top.node.name.lexeme] = ctrl.v
                   /\ \A x \in DOMAIN before \ {Top.node.name.lexeme} :
                          after[x] = before[x]
       /\ (stage' = "done" /\ src' = [name |-> "fields", choice |-> 0])
              => printed' = <<"field", "method", "g">>]_vars

C11_Witness ==
    /\ Returned("Get")
    /\ ctrl.v.t = "Instance"
    /\ instance_get_field(instances, ctrl.v.ref, Top.node.name).some
    /\ instance_get_method(classes, instances, ctrl.v.ref, Top.node.name).some
    /\ Len(instances) > 1

(* a function, class or instance value; a function value is told apart     *)
(* from every other by its declaration and the environment it closed over, *)
(* of which each execution of a declaration and each binding has its own   *)
Created(o) == o.t \in {"Function", "Class", "Instance"}

(* C12: for function, class and instance values a == b is true exactly     *)
(* when both were produced by the same creating evaluation.                *)
C12_EqualIffSameCreation ==
    [][(/\ Returned("BinaryR")
        /\ Top.node.operator.type_ = "EqualEqual"
        /\ Created(Top.left)
        /\ Created(ctrl.v))
       => ctrl' = Val(Bool(Top.left = ctrl.v))]_vars

Falsy(o) == o = Nil \/ o = Bool(FALSE)

(* what the truthy source prints for its value, shown as text *)
TruthyExpected(falsy, text) ==
    IF falsy THEN <<"true", "else", text, "or">>
    ELSE <<"false", "then", "and", text, "loop">>

TruthyText(choice) ==
    CASE choice = 1 -> "nil"
      [] choice = 2 -> "false"
      [] choice = 3 -> "true"
      [] choice = 4 -> "0"
      [] choice = 5 -> ""
      [] choice = 6 -> "<function clock>"
      [] choice = 7 -> "<function f>"
      [] choice = 8 -> "<class C>"
      [] choice = 9 -> "<instance of C>"

(* C13: nil and false are the only falsy values, and that decides !, if,   *)
(* while, and, or: ! yields true exactly for them, if takes the else branch *)
(* and while ends exactly for them, and yields its left operand exactly for *)
(* them, or evaluates its right operand exactly for them.                   *)
C13_OnlyNilAndFalseAreFalsy ==
    [][/\ (Returned("Unary") /\ Top.node.operator.type_ = "Bang")
          => ctrl' = Val(Bool(Falsy(ctrl.v)))
       /\ Returned("If")
          => ctrl' = IF ~Falsy(ctrl.v) THEN Exec(Top.node.then_)
                     ELSE IF Top.node.else_.some THEN Exec(Top.node.else_.v)
                     ELSE Done
       /\ Returned("WhileCond")
          => ctrl' = IF Falsy(ctrl.v) THEN Done ELSE Exec(Top.node.body)
       /\ (Returned("Logical") /\ Top.node.operator.type_ = "And")
          => ctrl' = IF Falsy(ctrl.v) THEN Val(ctrl.v) ELSE Eval(Top.node.right)
       /\ (Returned("Logical") /\ Top.node.operator.type_ = "Or")
          => ctrl' = IF Falsy(ctrl.v) THEN Eval(Top.node.right) ELSE Val(ctrl.v)
       /\ (stage' = "done" /\ src'.name = "truthy")
          => printed' = TruthyExpected(src'.choice \in {1, 2}, TruthyText(src'.choice))]_vars

C13_Witness ==
    /\ Finished("truthy", 4)
    /\ printed = <<"false", "then", "and", "0", "loop">>

IsPrefix(s, t) == Len(s) <= Len(t) /\ \A i \in DOMAIN s : s[i] = t[i]

(* the lines the order source prints, and the message it fails with *)
OrderPrinted(choice) ==
    CASE choice = 1 -> <<"1", "2", "3">>
      [] choice = 2 -> <<"1", "2">>
      [] choice = 3 -> <<"c", "1", "2">>
      [] choice = 4 -> <<"1">>
      [] choice = 5 -> <<"1", "b">>

OrderMessage(choice) ==
    CASE choice = 2 -> "Expected 0 arguments but got 2."
      [] choice = 3 -> "Can only call functions and classes, got 'c'."
      [] choice = 4 -> "Expected 0 arguments but got 1."
      [] choice = 5 -> "invalid types for subtraction"

(* C14: evaluation is left to right.  The right operand of a binary        *)
(* expression is evaluated with the left one's value at hand; a call is     *)
(* dispatched only with the callee and all its arguments evaluated, in      *)
(* order; their prints appear in that order, also when the call then fails. *)
C14_LeftToRight ==
    /\ \A j \in DOMAIN kont :
           kont[j].k = "CallArgs"
               => /\ Len(kont[j].arguments) <= Len(kont[j].node.arguments)
                  /\ (j = Len(kont) /\ ctrl.m = "call")
                         => Len(kont[j].arguments) = Len(kont[j].node.arguments)
    /\ src.name = "order"
           => /\ IsPrefix(printed, OrderPrinted(src.choice))
              /\ stage = "done"
                     => /\ printed = OrderPrinted(src.choice)
                        /\ IF src.choice = 1 THEN result.tag = "Ok"
                           ELSE /\ result.tag = "Err"
                                /\ result.e.message = OrderMessage(src.choice)

C14_Witness ==
    /\ Finished("order", 2)
    /\ printed = <<"1", "2">>
    /\ result.tag = "Err"

(* the lines the logical source prints: the operands evaluated, then the   *)
(* value of the expression                                                 *)
LogicalPrinted(choice) ==
    CASE choice = 1 -> <<"nil", "r", "r">>
      [] choice = 2 -> <<"0", "0">>
      [] choice = 3 -> <<"nil", "nil">>
      [] choice = 4 -> <<"0", "r", "r">>
      [] choice = 5 -> <<"false", "r", "r">>
      [] choice = 6 -> <<"", "r", "r">>

(* C15: or evaluates its right operand exactly when the left one is falsy, *)
(* and exactly when it is truthy; the value of the expression is the value *)
(* of the last operand evaluated, and a skipped operand prints nothing.    *)
C15_ShortCircuit ==
    [][/\ Returned("Logical")
          => LET skip == IF Top.node.operator.type_ = "Or" THEN ~Falsy(ctrl.v)
                         ELSE Falsy(ctrl.v)
             IN /\ ctrl' = IF skip THEN Val(ctrl.v) ELSE Eval(Top.node.right)
                /\ kont' = Rest
                /\ UNCHANGED <<printed, heap, environment>>
       /\ (stage' = "done" /\ src'.name = "logical")
          => printed' = LogicalPrinted(src'.choice)]_vars

C15_Witness ==
    /\ Finished("logical", 2)
    /\ printed = <<"0", "0">>

(* the lines a loop source prints *)
LoopPrinted(choice) == <<"0", "1", IF LoopCond(choice) THEN "9" ELSE "2">>

(* C16: a for statement is parsed into the tree of the block-and-while     *)
(* text it stands for (the condition true when absent, no outer block      *)
(* without an initializer, no inner block without an increment), it is     *)
(* resolved to the same depths, and both print the same lines and end the  *)
(* same way.                                                               *)
C16_ForIsWhile ==
    src.name \in {"for", "while"}
        => /\ stage = "resolve" => prog = parse(SrcWhile(src.choice).scan.v).v
           /\ stage \in {"run", "execute"}
                  => prog = resolve(parse(SrcWhile(src.choice).scan.v).v).v
           /\ stage = "done" => result = Ok("unit") /\ printed = LoopPrinted(src.choice)
           /\ IsPrefix(printed, LoopPrinted(src.choice))

C16_Witness ==
    /\ Finished("for", 10)
    /\ printed = <<"0", "1", "9">>
    /\ prog[1].body[1].t = "Block"
    /\ prog[1].body[1].stmts[2].t = "While"
    /\ prog[1].body[1].stmts[2].body.t = "Block"

(* C17: a second declaration of a name in the same scope, other than the   *)
(* global one, is reported at its token with "Already a variable with this *)
(* name in this scope." and exit 65, and nothing of the program is run; at  *)
(* global scope, and in a scope nested in the one of the first             *)
(* declaration, it is accepted and the later definition is the one read.   *)
C17_RedeclarationRejected ==
    src.name = "redeclare"
        => IF src.choice \in 1..7
           THEN /\ stage \notin {"run", "execute"}
                /\ printed = <<>>
                /\ stage = "done"
                       => result = Err([line |-> 2, loc |-> " at 'a'", exit |-> 65,
                                        message |-> "Already a variable with this name in this scope."])
           ELSE stage = "done"
                    => /\ result = Ok("unit")
                       /\ printed = IF src.choice = 9 THEN <<"3">> ELSE <<"2">>

C17_Witness ==
    /\ Finished("redeclare", 3)
    /\ result.tag = "Err"
    /\ printed = <<>>

(* C18: a local variable read in its own initializer is reported at the    *)
(* read with "Can't read local variable in its own initializer." and exit  *)
(* 65, also when an enclosing scope has a variable of that name, and       *)
(* nothing of the program is run; a global one, and a read of another      *)
(* scope's variable, are accepted.                                         *)
C18_OwnInitializerRejected ==
    src.name = "initializer"
        => IF src.choice \in 1..4
           THEN /\ stage \notin {"run", "execute"}
                /\ printed = <<>>
                /\ stage = "done"
                       => result = Err([line |-> 2, loc |-> " at 'a'", exit |-> 65,
                                        message |-> "Can't read local variable in its own initializer."])
           ELSE stage = "done"
                    => /\ result = Ok("unit")
                       /\ printed = IF src.choice = 5 THEN <<"2">> ELSE <<"1">>

C18_Witness ==
    /\ Finished("initializer", 2)
    /\ result.tag = "Err"
    /\ printed = <<>>

(* C19: a return outside every function and method body is reported with  *)
(* "Can't return from top-level code." and exit 65 and nothing is run, so  *)
(* of a program the resolver accepts no Return reaches execute_program:    *)
(* its guard against one never acts.                                       *)
C19_NoReturnReachesTopLevel ==
    /\ ~(/\ Running
         /\ Top.k = "Program"
         /\ ctrl.m = "unw"
         /\ ctrl.u.t = "Return")
    /\ (stage = "done" /\ result.tag = "Err")
           => result.e.message # "[resolver bug] Can't return from top-level code."
    /\ src.name = "toplevel"
           => IF src.choice \in 1..6
              THEN /\ stage \notin {"run", "execute"}
                   /\ printed = <<>>
                   /\ stage = "done"
                          => result = Err([line |-> 2, loc |-> " at 'return'",
                                           exit |-> 65,
                                           message |-> "Can't return from top-level code."])
              ELSE stage = "done"
                       => /\ result = Ok("unit")
                          /\ printed = IF src.choice = 7 THEN <<"7">> ELSE <<"2">>

C19_Witness ==
    /\ Finished("toplevel", 5)
    /\ result.tag = "Err"
    /\ printed = <<>>

(* the diagnostics of the errors source, in the order the nodes are visited *)
ErrorsExpected(choice) ==
    CASE choice = 1 ->
            <<[line |-> 2, loc |-> " at 'a'", exit |-> 65,
               message |-> "Already a variable with this name in this scope."],
              [line |-> 2, loc |-> " at 'a'", exit |-> 65,
               message |-> "Can't read local variable in its own initializer."]>>
      [] choice = 2 ->
            <<[line |-> 1, loc |-> " at 'return'", exit |-> 65,
               message |-> "Can't return from top-level code."],
              [line |-> 2, loc |-> " at 'a'", exit |-> 65,
               message |-> "Can't read local variable in its own initializer."],
              [line |-> 3, loc |-> " at 'this'", exit |-> 65,
               message |-> "Can't use 'this' outside of a class."]>>
      [] choice = 3 ->
            <<[line |-> 2, loc |-> " at 'return'", exit |-> 65,
               message |-> "Can't return a value from an initializer."],
              [line |-> 2, loc |-> " at 'super'", exit |-> 65,
               message |-> "Can't use 'super' in a class with no superclass."]>>

(* the text of the errors source's error, as it is shown *)
ErrorsShown(choice) ==
    CASE choice = 1 ->
            "[line 2] Error at 'a': Already a variable with this name in this scope.\n[line 2] Error at 'a': Can't read local variable in its own initializer."
      [] choice = 2 ->
            "[line 1] Error at 'return': Can't return from top-level code.\n[line 2] Error at 'a': Can't read local variable in its own initializer.\n[line 3] Error at 'this': Can't use 'this' outside of a class."
      [] choice = 3 ->
            "[line 2] Error at 'return': Can't return a value from an initializer.\n[line 2] Error at 'super': Can't use 'super' in a class with no superclass."

(* C20: the resolver walks the whole program whatever it finds; it fails   *)
(* exactly when it recorded a diagnostic, with every diagnostic in the     *)
(* order of the walk, two of one declaration included, and the error shown *)
(* is their texts joined by newlines in that order.                        *)
C20_EveryDiagnosticInOrder ==
    /\ stage = "resolve"
           => (resolve(prog).tag = "Err")
                  = (src.name \in {"errors", "unresolvable"}
                     \/ (src.name = "redeclare" /\ src.choice \in 1..7)
                     \/ (src.name = "initializer" /\ src.choice \in 1..4)
                     \/ (src.name = "toplevel" /\ src.choice \in 1..6))
    /\ src.name = "errors"
           => /\ stage = "resolve" => resolve(prog) = Err(ErrorsExpected(src.choice))
              /\ stage \notin {"run", "execute"}
              /\ stage = "done"
                     => /\ result.tag = "Err"
                        /\ LoxError_to_string(result.e) = ErrorsShown(src.choice)
                        /\ result.e.exit = 65

C20_Witness ==
    /\ Finished("errors", 2)
    /\ result.tag = "Err"
    /\ LoxError_to_string(result.e) = ErrorsShown(2)

(* the lines the halt source prints before its error, and the error's message *)
HaltPrinted(choice) ==
    CASE choice = 1 -> <<"1", "2">>
      [] choice = 2 -> <<"1">>
      [] choice = 3 -> <<"1", "2">>

HaltMessage(choice) ==
    CASE choice = 1 -> "Can only call functions and classes, got 'nil'."
      [] choice = 2 -> "invalid type for negation"
      [] choice = 3 -> "Undefined variable 'b'."

Erroring == Running /\ ctrl.m = "unw" /\ ctrl.u.t = "Err"

(* C21: a runtime error halts execution.  From the step that raises it, every *)
(* step only pops a frame with the same error in hand: nothing is printed,    *)
(* no object or binding changes, no call frame or block turns it into a       *)
(* value, and the run ends with exactly that error, exit 70, empty location;  *)
(* the lines printed before it remain.                                       *)
C21_RuntimeErrorHalts ==
    /\ [][Erroring =>
            /\ printed' = printed
            /\ heap' = heap
            /\ Len(kont') < Len(kont)
            /\ IF stage' = "done"
               THEN /\ result' = Err(ctrl.u.e)
                    /\ result'.e.exit = 70
                    /\ result'.e.loc = ""
               ELSE ctrl' = ctrl]_vars
    /\ [](src.name = "halt"
            => /\ IsPrefix(printed, HaltPrinted(src.choice))
               /\ stage = "done"
                    => /\ printed = HaltPrinted(src.choice)
                       /\ result.tag = "Err"
                       /\ result.e.message = HaltMessage(src.choice)
                       /\ result.e.exit = 70
                       /\ result.e.loc = "")

C21_Witness ==
    /\ Finished("halt", 1)
    /\ printed = <<"1", "2">>
    /\ result.tag = "Err"
    /\ result.e.message = "Can only call functions and classes, got 'nil'."

(* the failed declarations of a parse: where each one stopped and where the *)
(* parser resumed after it                                                  *)
RECURSIVE Recoveries(_)
RecoveriesAfter(d) ==
    (IF Failed(d) THEN <<[at |-> d.current, to |-> Declared(d).current,
                          error |-> d.err.v]>>
     ELSE <<>>) \o Recoveries(Declared(d))

Recoveries(s) == IF is_at_end(s) THEN <<>> ELSE RecoveriesAfter(declaration(s))

(* a cursor at which recovery may stop *)
Resumable(tokens, p) ==
    \/ tokens[p + 1].type_ = "EOF"
    \/ (p > 0 /\ tokens[p].type_ = "Semicolon")
    \/ tokens[p + 1].type_ \in {"Class", "Fun", "Var", "For", "If", "While",
                                "Print", "Return"}

(* the diagnostics of the recover sources *)
RecoverExpected(choice) ==
    CASE choice = 1 -> <<parse_error(Token("Semicolon", ";", 1), "Expect variable name."),
                         parse_error(Token("Semicolon", ";", 2), "Expect variable name.")>>
      [] choice = 2 -> <<parse_error(Token("Semicolon", ";", 1), "Expect variable name.")>>
      [] choice = 3 -> <<parse_error(Token("Identifier", "b", 1),
                                     "Expect ';' after value."),
                         parse_error(Token("Semicolon", ";", 2), "Expect expression.")>>
      [] choice = 4 -> <<parse_error(Token("Print", "print", 1),
                                     "Expect ';' after value."),
                         parse_error(Token("RightParen", ")", 2), "Expect expression.")>>
      [] choice = 5 -> <<parse_error(Token("Semicolon", ";", 1), "Expect variable name."),
                         parse_error(Token("RightBrace", "}", 1), "Expect expression.")>>
      [] choice = 6 -> <<parse_error(Token("EOF", "", 1), "Expect variable name.")>>
      [] choice = 7 -> <<>>

C23_AssignmentTargets ==
    (src.name = "assign" /\ stage # "scan")
        => LET tokens == SourceOf(src).scan.v
               recoveries == Recoveries(Parser(tokens))
           IN /\ \A i \in DOMAIN recoveries :
                    recoveries[i].error.message # "Invalid assignment target."
              /\ src.choice = 1
                    => parse(tokens)
                         = Ok(<<VarStmt(Ident("v"), None), VarStmt(Ident("w"), None),
                                ExprStmt(AssignExpr(Ident("v"),
                                             AssignExpr(Ident("w"), N(3)))),
                                PrintStmt(V("v"))>>)
              /\ src.choice = 2
                    => parse(tokens)
                         = Ok(<<ExprStmt(SetExpr(V("o"), Ident("f"), N(1)))>>)

(* what the parser does with these sources: the right-associative Assign    *)
(* tree, and one diagnostic followed by recovery for every other target     *)
C23_Observed ==
    (src.name = "assign" /\ stage # "scan")
        => LET tokens == SourceOf(src).scan.v
           IN parse(tokens)
                = CASE src.choice = 1 ->
                         Ok(<<VarStmt(Ident("v"), None), VarStmt(Ident("w"), None),
                              ExprStmt(AssignExpr(Ident("v"),
                                           AssignExpr(Ident("w"), N(3)))),
                              PrintStmt(V("v"))>>)
                    [] src.choice = 2 ->
                         Err(<<parse_error(Token("Dot", ".", 1),
                                           "Expect ';' after value.")>>)
                    [] src.choice = 3 ->
                         Err(<<parse_error(Token("Equal", "=", 1),
                                           "Invalid assignment target.")>>)
                    [] src.choice = 4 ->
                         Err(<<parse_error(Token("Equal", "=", 1),
                                           "Invalid assignment target.")>>)

(* the scanner states at the head of each iteration of the loop of         *)
(* scan_tokens, the final state last                                       *)
RECURSIVE ScanTrace(_)
ScanTrace(sc) ==
    IF Stopped(sc) \/ Scanner_is_at_end(sc) THEN <<Scanner_scan_tokens(sc)>>
    ELSE <<sc>> \o ScanTrace(Scanner_scan_token([sc EXCEPT !.start = sc.current]))

(* C24: for every text the scanner ends without aborting, with tokens that *)
(* hold exactly one EOF, the last one, or with one diagnostic of exit 65    *)
(* for an unexpected character or an unterminated string; the position      *)
(* grows with every token scanned and never passes the end of the text.     *)
C24_ScannerTotal ==
    (src.name = "scan" /\ stage = "done")
        => LET trace == ScanTrace(Scanner(src.choice))
           IN /\ result.tag \in {"Ok", "Err"}
              /\ result.tag = "Ok"
                    => /\ Len(result.v) >= 1
                       /\ \A i \in DOMAIN result.v :
                              (result.v[i].type_ = "EOF") = (i = Len(result.v))
              /\ result.tag = "Err"
                    => /\ result.e.exit = 65
                       /\ result.e.message
                              \in {"Unterminated string", "Unexpected character: '64'."}
              /\ \A i \in DOMAIN trace :
                    /\ trace[i].current \in 0..Len(src.choice)
                    /\ trace[i].start <= trace[i].current
                    /\ i < Len(trace) - 1 => trace[i].current < trace[i + 1].current

(* the only texts on which the scanner aborts end with digits and a '.' *)
C24_Observed ==
    (src.name = "scan" /\ stage = "done" /\ result = Panic)
        => /\ Len(src.choice) >= 2
           /\ src.choice[Len(src.choice)] = "."
           /\ src.choice[Len(src.choice) - 1] \in Digits

(* the number of digits of source from index from on, up to the first byte *)
(* that is no digit                                                         *)
RECURSIVE DigitRun(_, _)
DigitRun(source, from) ==
    IF from \in DOMAIN source /\ source[from] \in Digits
    THEN 1 + DigitRun(source, from + 1)
    ELSE 0

(* the scanner's final state for the text at hand *)
ScanRun == Scanner_scan_tokens(Scanner(src.choice))

(* C25: number scanning.  For a text that starts with digits and a '.', the *)
(* first token is a Number: with the fraction when a digit follows the '.', *)
(* and otherwise, also when the text ends at the '.', without it, the next  *)
(* token being the Dot.                                                     *)
C25_TrailingDotIsNoFraction ==
    (src.name = "scan" /\ stage = "done")
        => LET source == src.choice
               d == DigitRun(source, 1)
               f == DigitRun(source, d + 2)
           IN (d >= 1 /\ d < Len(source) /\ source[d + 1] = ".")
                 => IF f >= 1
                    THEN /\ Len(ScanRun.tokens) >= 1
                         /\ ScanRun.tokens[1]
                              = Token("Number", Lexeme(source, 0, d + 1 + f), 1)
                    ELSE /\ Len(ScanRun.tokens) >= 2
                         /\ ScanRun.tokens[1] = Token("Number", Lexeme(source, 0, d), 1)
                         /\ ScanRun.tokens[2] = Token("Dot", ".", 1)

(* what number scanning does: as above when a byte follows the '.', and an  *)
(* abort, with no result at all, when the text ends at the '.'              *)
C25_Observed ==
    (src.name = "scan" /\ stage = "done")
        => LET source == src.choice
               d == DigitRun(source, 1)
               f == DigitRun(source, d + 2)
           IN (d >= 1 /\ d < Len(source) /\ source[d + 1] = ".")
                 => IF d + 1 = Len(source) THEN result = Panic
                    ELSE IF f >= 1
                    THEN /\ Len(ScanRun.tokens) >= 1
                         /\ ScanRun.tokens[1]
                              = Token("Number", Lexeme(source, 0, d + 1 + f), 1)
                    ELSE /\ Len(ScanRun.tokens) >= 2
                         /\ ScanRun.tokens[1] = Token("Number", Lexeme(source, 0, d), 1)
                         /\ ScanRun.tokens[2] = Token("Dot", ".", 1)

(* what the first repl line prints when it fails *)
ReplFailure == "[line 1] Error: Can only call functions and classes, got 'nil'."

RECURSIVE Chain(_, _)
Chain(h, e) ==
    IF h[e].enclosing.some THEN <<e>> \o Chain(h, h[e].enclosing.v) ELSE <<e>>

Holds(h, e, name) == name \in DOMAIN h[e].values

(* the nearest environment of the chain of e that holds name *)
Nearest(h, e, name) ==
    Chain(h, e)[CHOOSE i \in DOMAIN Chain(h, e) :
                    /\ Holds(h, Chain(h, e)[i], name)
                    /\ \A j \in 1..(i - 1) : ~Holds(h, Chain(h, e)[j], name)]

AssignNames == {"a", "b", "c", "f", "x"}

AssignedValue == String("assigned")

(* C27: assign, from any environment of any heap the interpreter builds,    *)
(* changes the binding of the name in the nearest environment of the chain  *)
(* that holds it and nothing else, adding no name anywhere; when none holds *)
(* it the result is the error "Undefined variable '<name>'." and, in the    *)
(* interpreter, no environment changes.                                     *)
C27_AssignChangesNearestBinding ==
    /\ [](\A e \in DOMAIN envs : \A name \in AssignNames :
            LET res == Environment_assign(envs, e, Ident(name), AssignedValue)
            IN IF \E i \in DOMAIN Chain(envs, e) : Holds(envs, Chain(envs, e)[i], name)
               THEN /\ res.tag = "Ok"
                    /\ DOMAIN res.v = DOMAIN envs
                    /\ \A x \in DOMAIN envs :
                          /\ res.v[x].enclosing = envs[x].enclosing
                          /\ DOMAIN res.v[x].values = DOMAIN envs[x].values
                          /\ \A n \in DOMAIN envs[x].values :
                                res.v[x].values[n]
                                   = IF x = Nearest(envs, e, name) /\ n = name
                                     THEN AssignedValue
                                     ELSE envs[x].values[n]
               ELSE res = Err(runtime_error(Ident(name),
                                  "Undefined variable '" \o name \o "'.")))
    /\ [][Returned("Assign")
            => IF ctrl'.m = "unw"
               THEN /\ envs' = envs
                    /\ ctrl'.u.e.message
                          = "Undefined variable '" \o Top.node.name.lexeme \o "'."
               ELSE /\ DOMAIN envs' = DOMAIN envs
                    /\ \A x \in DOMAIN envs :
                          DOMAIN envs'[x].values = DOMAIN envs[x].values]_vars

C27_Witness ==
    /\ src = [name |-> "assignment", choice |-> 1]
    /\ Len(printed) = 1
    /\ \E e \in DOMAIN envs :
          /\ Len(Chain(envs, e)) = 3
          /\ Nearest(envs, e, "b") = Chain(envs, e)[2]
          /\ envs[Chain(envs, e)[2]].values["b"] = Number(5)
          /\ envs[Chain(envs, e)[3]].values["a"] = Number(4)
          /\ DOMAIN envs[e].values = {"c"}

(* the heap h with the binding of name in environment x set to value *)
Rebound(h, x, name, value) ==
    [y \in DOMAIN h |->
        IF y = x THEN [h[y] EXCEPT !.values = [n \in DOMAIN @ |->
                                                 IF n = name THEN value ELSE @[n]]]
        ELSE h[y]]

HeldAbove(h, e, name) == \E i \in DOMAIN Chain(h, e) : Holds(h, Chain(h, e)[i], name)

(* C28 as claimed: get_at and assign_at, from any environment of any heap   *)
(* the interpreter builds, read and write the environment k parents up and  *)
(* no other: without a binding there, get_at and assign_at fail and no      *)
(* environment further up is read or written.                               *)
C28_OnlyTheKthEnvironment ==
    \A e \in DOMAIN envs : \A k \in 0..(Len(Chain(envs, e)) - 1) :
        \A name \in AssignNames :
            LET target == Chain(envs, e)[k + 1]
            IN /\ Environment_get_at(envs, e, k, Ident(name))
                    = IF Holds(envs, target, name)
                      THEN Ok(envs[target].values[name])
                      ELSE undefined(Ident(name))
               /\ Environment_assign_at(envs, e, k, Ident(name), AssignedValue)
                    = IF Holds(envs, target, name)
                      THEN Ok(Rebound(envs, target, name, AssignedValue))
                      ELSE undefined(Ident(name))

(* what get_at and assign_at do: they walk exactly k parents and then act as *)
(* get and assign from the environment reached: they read and write the     *)
(* nearest binding of the name from that environment upwards, so one held   *)
(* further up is used when the environment reached has none; the            *)
(* environments below the one reached are never read or written, and a      *)
(* chain of fewer than k parents aborts.                                    *)
C28_Observed ==
    \A e \in DOMAIN envs : \A k \in 0..Len(Chain(envs, e)) :
        \A name \in AssignNames :
            IF k = Len(Chain(envs, e))
            THEN /\ Environment_get_at(envs, e, k, Ident(name)) = Panic
                 /\ Environment_assign_at(envs, e, k, Ident(name), AssignedValue) = Panic
            ELSE LET target == Chain(envs, e)[k + 1]
                 IN IF HeldAbove(envs, target, name)
                    THEN /\ Environment_get_at(envs, e, k, Ident(name))
                              = Ok(envs[Nearest(envs, target, name)].values[name])
                         /\ Environment_assign_at(envs, e, k, Ident(name), AssignedValue)
                              = Ok(Rebound(envs, Nearest(envs, target, name), name,
                                           AssignedValue))
                    ELSE /\ Environment_get_at(envs, e, k, Ident(name))
                              = undefined(Ident(name))
                         /\ Environment_assign_at(envs, e, k, Ident(name), AssignedValue)
                              = undefined(Ident(name))

(* the number of parameters of the function or builtin about to be called *)
ArityOf(callee) ==
    IF callee.t = "Function" THEN Len(callee.declaration.parameters) ELSE callee.arity

ArityShown(choice) ==
    CASE choice = 1 -> "[line 3] Error: Expected 1 arguments but got 2."
      [] choice = 2 -> "[line 2] Error: Expected 0 arguments but got 1."
      [] choice = 3 -> "[line 4] Error: Expected 1 arguments but got 0."

(* C29: a call of a function or builtin with a number of arguments other   *)
(* than its arity is the runtime error "Expected N arguments but got M." at *)
(* the line of the closing parenthesis; the call runs nothing: no frame is  *)
(* pushed, nothing is printed, the clock is not read, and no environment,   *)
(* the closure's and the caller's included, changes.                        *)
C29_ArityMismatch ==
    /\ [][(/\ Running /\ ctrl.m = "call" /\ Top.k = "CallArgs"
           /\ Top.callee.t \in {"Function", "BuiltinFunction"}
           /\ ArityOf(Top.callee) # Len(Top.arguments))
            => /\ ctrl' = Unwind(Unwinder_Err(
                     [line |-> Top.node.paren.line, loc |-> "", exit |-> 70,
                      message |-> "Expected " \o ToString(ArityOf(Top.callee))
                                  \o " arguments but got "
                                  \o ToString(Len(Top.arguments)) \o "."]))
               /\ kont' = Rest
               /\ heap' = heap
               /\ environment' = environment
               /\ printed' = printed
               /\ time' = time]_vars
    /\ [](src.name = "arity"
            => /\ IsPrefix(printed, IF src.choice = 2 THEN <<"1">> ELSE <<>>)
               /\ time = 0
               /\ stage = "done"
                     => /\ result.tag = "Err"
                        /\ LoxError_to_string(result.e) = ArityShown(src.choice)
                        /\ result.e.exit = 70)

C29_Witness ==
    /\ Finished("arity", 1)
    /\ printed = <<>>
    /\ result.tag = "Err"
    /\ LoxError_to_string(result.e) = "[line 3] Error: Expected 1 arguments but got 2."

(* the iterations of the loop of program: the cursor before the declaration, *)
(* where the declaration stopped, whether it failed, and the cursor at the   *)
(* end of the iteration                                                      *)
RECURSIVE Iterations(_)
IterationsAfter(s, d) ==
    <<[from |-> s.current, stop |-> d.current, failed |-> Failed(d),
       to |-> Declared(d).current]>> \o Iterations(Declared(d))

Iterations(s) ==
    IF s.aborted \/ is_at_end(s) THEN <<>> ELSE IterationsAfter(s, declaration(s))

(* C30: on every token list closed by EOF parse ends, in at most as many    *)
(* iterations as there are tokens before EOF: every iteration, failed or    *)
(* not, moves the cursor forward, the cursor stays between 0 and the index  *)
(* of EOF, no read of the previous token underflows, and the result is the  *)
(* list of diagnostics exactly when one was recorded, else the program with *)
(* one declaration per iteration.                                           *)
C30_ParseTerminates ==
    (src.name = "parse" /\ stage = "done")
        => LET tokens == SourceOf(src).scan.v
               eof == Len(tokens) - 1
               iterations == Iterations(Parser(tokens))
               final == program(Parser(tokens))
           IN /\ ~final.aborted
              /\ result.tag \in {"Ok", "Err"}
              /\ Len(iterations) <= eof
              /\ \A i \in DOMAIN iterations :
                    /\ 0 <= iterations[i].from
                    /\ iterations[i].from <= iterations[i].stop
                    /\ iterations[i].stop <= iterations[i].to
                    /\ iterations[i].to <= eof
                    /\ iterations[i].from < iterations[i].to
                    /\ i < Len(iterations) => iterations[i + 1].from = iterations[i].to
              /\ final.current = eof
              /\ Len(final.errors)
                    = Cardinality({i \in DOMAIN iterations : iterations[i].failed})
              /\ (result.tag = "Err") = (Len(final.errors) > 0)
              /\ result.tag = "Err" => result.e = final.errors
              /\ result.tag = "Ok"
                    => /\ result.v = final.stmts
                       /\ Len(result.v) = Len(iterations)

C30_Witness ==
    /\ src = [name |-> "parse", choice |-> <<"}", "a", ";">>]
    /\ stage = "done"
    /\ result = Err(<<parse_error(Token("RightBrace", "}", 1), "Expect expression.")>>)
    /\ Iterations(Parser(SourceOf(src).scan.v))
          = <<[from |-> 0, stop |-> 0, failed |-> TRUE, to |-> 3]>>

====
